---- MODULE Spec2Model ----
(***************************************************************************)
(* Model of the resource-governance core of ai_system:                     *)
(*   - ObjectPool      (src/ai_system/object_pool.py)                      *)
(*   - ThreadPool      (src/ai_system/thread_pool.py)                      *)
(*   - MemoryMonitor   (src/ai_system/memory_monitor.py)                   *)
(* Each component has its own specifications (PoolSpec for the pool;       *)
(* SchedSpec, OrderSpec, ResizeSpec, FairSpec and CloseSpec for the        *)
(* scheduler; MonitorSpec for the memory monitor); the variables of the    *)
(* other components keep their initial values.                             *)
(***************************************************************************)
EXTENDS Integers, Sequences, FiniteSets, TLC

(***************************************************************************)
(* Bounds of the model.                                                    *)
(***************************************************************************)
\* number of client threads that call into the pool
NumThreads == 3
MaxCallers == 2
MaxLogTicks == 2
MaxSamples == 102
MaxGcCalls == 102
\* largest max_size a pool is constructed with
MaxPoolSize == 2
\* largest number of objects that are checked out at a time
MaxOut == 3

\* largest number of tasks the concurrent clients submit
MaxTasks == 2
\* largest number of tasks the ordering client submits with freely chosen priorities
MaxPlan == 2
\* largest max_workers a scheduler is constructed with
MaxWorkers == 2

\* largest number of tasks submitted to a scheduler that is resized, purged or shut down
MaxJobs == 2
\* largest number of resize calls that replace the executor
MaxResizes == 1
\* largest number of tasks submitted to a scheduler whose threads are scheduled fairly
MaxFairJobs == 1

\* largest number of loop threads the sampler's start calls create
MaxLoops == 2
\* largest number of sampler ticks that raise an alert
MaxAlerts == 2
\* number of alert callbacks a client registers with the sampler
NumCallbacks == 2
\* max_snapshots of the inspector: largest number of snapshots it keeps
MaxSnapshots == 4
\* largest number of alerts the alert manager handles
MaxRouted == 3
\* largest number of MemoryManager.shutdown calls
MaxShutdowns == 2

Threads == 1..NumThreads

VARIABLES
    \* ---- ObjectPool ----
    max_size,       \* self._max_size
    block,          \* self._block
    has_reset,      \* self._reset_object is not None
    pool,           \* self._pool: the idle list; each entry names how the object was last handed out
    in_use_count,   \* self._in_use_count
    waiters,        \* self._cond._waiters: threads inside self._cond.wait, oldest first
    pc,             \* per thread: position inside acquire
    held,           \* objects acquire returned and release has not been called on, by the way they were handed out
    last,           \* the call step taken last: thread, operation, outcome
    \* ---- ThreadPool ----
    clock,          \* the value time.time() returned last
    tasks,          \* every Task object created by submit, in the order of creation
    task_queue,     \* self._task_queue.queue: the heap list of the PriorityQueue (task ids)
    max_workers,    \* self._max_workers
    executors,      \* every ThreadPoolExecutor created so far, the last one is self._executor
    dispatchers,    \* every dispatcher thread started so far: position in _dispatch_tasks and the task it holds
    stats,          \* self._stats
    gate,           \* the dispatcher's first dequeue found every task of the ordering scenario queued
    shutdown,       \* self._shutdown
    resizer,        \* the thread that calls resize: position in resize and its argument
    closer,         \* the thread that calls shutdown: position in shutdown and its arguments
    refusal,        \* the error or early return of the submit, resize, purge_queue or shutdown call that failed last
    \* ---- MemoryMonitor ----
    warning_threshold,   \* self._warning_threshold, in tenths of a percent
    critical_threshold,  \* self._critical_threshold, in tenths of a percent
    classified,     \* the percent _check_alert_level was called with last and the level it returned
    threshold_call, \* the set_thresholds call made last and how it ended
    stop_monitoring,     \* self._stop_monitoring
    monitor_thread, \* self._monitor_thread: the loop thread created last, 0 for None
    loops,          \* every thread that runs _monitor_loop: its position and the locals of its tick
    stopper,        \* the thread inside stop, which holds self._monitor_lock: its position
    sampler_call,   \* the start or stop call that returned last and how it ended
    alert_callbacks,     \* self._alert_callbacks
    alert_count,    \* self._stats['alert_count']
    \* ---- GarbageCollectionMonitor ----
    snapshots,      \* self._snapshots: the total_size of each snapshot, oldest first
    leak_call,      \* the detect_memory_leaks call made last: its arguments and what it returned
    \* ---- MemoryAlertManager ----
    alert_configs,  \* self._alert_configs: per level the list of AlertConfig
    last_alert_times,    \* self._last_alert_times: per level, in seconds
    now,            \* the value time.time() returned last, in seconds
    dispatched_at,  \* per level the time of the alert in which a channel action was executed last, 0 for never
    handled,        \* the _handle_alert call that returned last: its locals and the rules whose action it executed
    routed,         \* number of _handle_alert calls so far
    \* ---- MemoryManager, MemoryLogger and the threads of GarbageCollectionMonitor ----
    snapshot_thread,     \* the thread that runs _snapshot_loop: its position
    stop_snapshot_thread,     \* the instance attribute self._stop_snapshot_thread of the inspector
    gc_hook,        \* self._gc_callback is in gc.callbacks
    log_thread,     \* the thread that runs _log_loop: its position
    stop_logging,   \* self._stop_logging of the logger
    governor,       \* the thread inside MemoryManager.shutdown: its position
    governor_call,  \* how the MemoryManager.shutdown call that ended last ended, and the number of calls
    config_manager, \* the configuration manager's memory.warning_threshold and memory.critical_threshold
    \* ---- the locks of the sampler, the alert manager and the governor ----
    locks,          \* per lock the thread that holds it, 0 for none
    inside,         \* per calling thread where it is inside _trigger_alert, _handle_alert, get_memory_stats or log_pool_stats
    \* ---- the histories of MemoryMonitor and GarbageCollectionMonitor ----
    history,        \* self._history of the monitor: per sample the number of the tick that took it
    samples_taken,  \* number of samples the loop has taken so far
    gc_stats,       \* self._gc_stats of the inspector: per collection its number
    total_gc_calls, \* self._stats['total_gc_calls'] of the inspector
    \* ---- ThreadPoolMonitor ----
    running,        \* self._running
    reporter_thread,     \* the thread that runs ThreadPoolMonitor._monitor_loop: its position
    custom_log_callback, \* a custom log callback is set
    log_ticks,      \* number of _log_stats calls so far
    callback_calls, \* number of calls of the custom log callback so far
    reported        \* how the _log_stats call that ended last ended, and the statistics it handed to the callback

poolVars == <<max_size, block, has_reset, pool, in_use_count, waiters, pc, held, last>>

schedVars == <<clock, tasks, task_queue, max_workers, executors, dispatchers, stats,
               gate, shutdown, resizer, closer, refusal>>

monitorVars == <<warning_threshold, critical_threshold, classified, threshold_call>>

samplerVars == <<stop_monitoring, monitor_thread, loops, stopper, sampler_call,
                 alert_callbacks, alert_count>>

gcVars == <<snapshots, leak_call>>

routerVars == <<alert_configs, last_alert_times, now, dispatched_at, handled, routed>>

governorVars == <<snapshot_thread, stop_snapshot_thread, gc_hook, log_thread, stop_logging,
                  governor, governor_call>>

configVars == <<config_manager>>

lockVars == <<locks, inside>>

historyVars == <<history, samples_taken, gc_stats, total_gc_calls>>

reporterVars == <<running, reporter_thread, custom_log_callback, log_ticks, callback_calls,
                  reported>>

\* the memory components and the scheduler's monitor
memoryVars == <<monitorVars, samplerVars, gcVars, routerVars, governorVars, configVars,
                lockVars, historyVars, reporterVars>>

\* what a step of the scheduler's monitor leaves alone, the scheduler apart
outsideReporter == <<poolVars, monitorVars, samplerVars, gcVars, routerVars, governorVars,
                     configVars, lockVars, historyVars>>

\* what a step of the memory monitor leaves alone
outsideMonitor == <<poolVars, schedVars, gcVars, routerVars, governorVars, configVars,
                    lockVars, historyVars, reporterVars>>

\* what a step of the garbage collection monitor leaves alone
outsideGc == <<poolVars, schedVars, monitorVars, samplerVars, routerVars, governorVars,
               configVars, lockVars, historyVars, reporterVars>>

\* what a step of the alert manager leaves alone
outsideRouter == <<poolVars, schedVars, monitorVars, samplerVars, gcVars, governorVars,
                   configVars, lockVars, historyVars, reporterVars>>

\* what a step of MemoryManager.shutdown or of the logger's or the inspector's
\* loop leaves alone, the monitor's fields apart
outsideGovernor == <<poolVars, schedVars, routerVars, configVars, lockVars, historyVars,
                     reporterVars>>


vars == <<poolVars, schedVars, memoryVars>>

(***************************************************************************)
(* ObjectPool                                                              *)
(***************************************************************************)
\* how acquire handed an object out: counted in in_use_count, or as a burst instance
Kinds == {"tracked", "burst"}

NoHeld == [k \in Kinds |-> 0]

HeldTotal == held["tracked"] + held["burst"]

\* the record of a step; seq alternates so that two equal calls in a row are two steps
Step(t, op, outcome) ==
    [thread |-> t, op |-> op, outcome |-> outcome, seq |-> 1 - last.seq]

PoolInit ==
    /\ max_size \in 1..MaxPoolSize
    /\ block \in BOOLEAN
    /\ has_reset \in BOOLEAN
    /\ pool = <<>>
    /\ in_use_count = 0
    /\ waiters = <<>>
    /\ pc = [t \in Threads |-> "idle"]
    /\ held = NoHeld
    /\ last = [thread |-> 0, op |-> "init", outcome |-> "none", seq |-> 0]

\* self._cond.notify() followed by the return of thread t.  Condition.notify
\* releases and removes the oldest entry of _waiters.  A thread whose timed
\* wait has already expired is still in _waiters until it has re-acquired the
\* lock, and its entry takes the notification.
NotifyAndReturn(t) ==
    IF waiters = <<>>
    THEN /\ waiters' = waiters
         /\ pc' = [pc EXCEPT ![t] = "idle"]
    ELSE /\ waiters' = Tail(waiters)
         /\ pc' = [pc EXCEPT ![t] = "idle",
                             ![Head(waiters)] =
                                 IF @ = "waiting" THEN "notified" ELSE @]

\* self._pool.pop(); self._in_use_count += 1; return obj
TakeIdle(t) ==
    /\ pool' = SubSeq(pool, 1, Len(pool) - 1)
    /\ in_use_count' = in_use_count + 1
    /\ held' = [held EXCEPT !["tracked"] = @ + 1]
    /\ pc' = [pc EXCEPT ![t] = "idle"]
    /\ last' = Step(t, "acquire", "pooled")
    /\ UNCHANGED <<waiters>>

FactoryRaises_Counted(t) ==
    /\ pc' = [pc EXCEPT ![t] = "idle"]
    /\ in_use_count' = in_use_count + 1
    /\ last' = Step(t, "acquire", "FactoryError")
    /\ UNCHANGED <<pool, held, waiters>>

\* create_object raised: it is logged and re-raised (normal path), or it
\* escapes the burst return; nothing has been assigned
FactoryRaises(t) ==
    /\ pc' = [pc EXCEPT ![t] = "idle"]
    /\ last' = Step(t, "acquire", "FactoryError")
    /\ UNCHANGED <<pool, in_use_count, held, waiters>>

\* a slot is free: obj = self._create_object(); self._in_use_count += 1
CreateTracked(t) ==
    /\ in_use_count' = in_use_count + 1
    /\ held' = [held EXCEPT !["tracked"] = @ + 1]
    /\ pc' = [pc EXCEPT ![t] = "idle"]
    /\ last' = Step(t, "acquire", "created")
    /\ UNCHANGED <<pool, waiters>>

CreateBurst_Counted(t) ==
    /\ in_use_count' = in_use_count + 1
    /\ held' = [held EXCEPT !["burst"] = @ + 1]
    /\ pc' = [pc EXCEPT ![t] = "idle"]
    /\ last' = Step(t, "acquire", "burst")
    /\ UNCHANGED <<pool, waiters>>

\* non-blocking pool at its limit: return self._create_object(), not counted
CreateBurst(t) ==
    /\ held' = [held EXCEPT !["burst"] = @ + 1]
    /\ pc' = [pc EXCEPT ![t] = "idle"]
    /\ last' = Step(t, "acquire", "burst")
    /\ UNCHANGED <<pool, in_use_count, waiters>>

\* blocking pool at its limit: self._cond.wait(timeout=self._timeout) enqueues
\* the thread and gives up the lock
WaitOnCond(t) ==
    /\ waiters' = Append(waiters, t)
    /\ pc' = [pc EXCEPT ![t] = "waiting"]
    /\ last' = Step(t, "acquire", "wait")
    /\ UNCHANGED <<pool, in_use_count, held>>

\* One pass of acquire under the lock, from the test of the while loop to the
\* return, the raise or the wait.  factoryFails: create_object raises if called.
AcquireLoop(t, factoryFails) ==
    IF pool # <<>> THEN TakeIdle(t)
    ELSE IF in_use_count < max_size
         THEN IF factoryFails THEN FactoryRaises(t) ELSE CreateTracked(t)
    ELSE IF ~block
         THEN IF factoryFails THEN FactoryRaises(t) ELSE CreateBurst(t)
    ELSE WaitOnCond(t)

\* a thread calls acquire()
Acquire(t) ==
    /\ pc[t] = "idle"
    /\ HeldTotal < MaxOut
    /\ \E factoryFails \in BOOLEAN : AcquireLoop(t, factoryFails)
    /\ UNCHANGED <<max_size, block, has_reset, schedVars, memoryVars>>

\* a notified waiter has the lock again: wait returned True, the loop goes round
AcquireResume(t) ==
    /\ pc[t] = "notified"
    /\ \E factoryFails \in BOOLEAN : AcquireLoop(t, factoryFails)
    /\ UNCHANGED <<max_size, block, has_reset, schedVars, memoryVars>>

\* the timeout of a waiting thread elapses; it has not re-acquired the lock yet
WaitExpire(t) ==
    /\ pc[t] = "waiting"
    /\ pc' = [pc EXCEPT ![t] = "timedout"]
    /\ last' = Step(t, "acquire", "expired")
    /\ UNCHANGED <<max_size, block, has_reset, pool, in_use_count, waiters, held, schedVars, memoryVars>>

WaitTimeout_Recheck(t) ==
    /\ pc[t] = "timedout"
    /\ waiters' = SelectSeq(waiters, LAMBDA w : w # t)
    /\ pc' = [pc EXCEPT ![t] = "idle"]
    /\ IF pool # <<>>
       THEN /\ pool' = SubSeq(pool, 1, Len(pool) - 1)
            /\ in_use_count' = in_use_count + 1
            /\ held' = [held EXCEPT !["tracked"] = @ + 1]
            /\ last' = Step(t, "acquire", "pooled")
       ELSE /\ last' = Step(t, "acquire", "PoolTimeout")
            /\ UNCHANGED <<pool, in_use_count, held>>
    /\ UNCHANGED <<max_size, block, has_reset, schedVars, memoryVars>>

\* the expired thread has the lock again: wait returns False, acquire raises
WaitTimeout(t) ==
    /\ pc[t] = "timedout"
    /\ waiters' = SelectSeq(waiters, LAMBDA w : w # t)
    /\ pc' = [pc EXCEPT ![t] = "idle"]
    /\ last' = Step(t, "acquire", "PoolTimeout")
    /\ UNCHANGED <<max_size, block, has_reset, pool, in_use_count, held, schedVars, memoryVars>>

ReleaseResetFailed_Silent(t) ==
    /\ in_use_count' = IF in_use_count > 0 THEN in_use_count - 1 ELSE in_use_count
    /\ pool' = pool
    /\ waiters' = waiters
    /\ pc' = [pc EXCEPT ![t] = "idle"]
    /\ last' = Step(t, "release", "reset_failed")

\* reset_object raised: the object is dropped, the count goes down if it was
\* positive, self._cond.notify(), return
ReleaseResetFailed(t) ==
    /\ in_use_count' = IF in_use_count > 0 THEN in_use_count - 1 ELSE in_use_count
    /\ pool' = pool
    /\ NotifyAndReturn(t)
    /\ last' = Step(t, "release", "reset_failed")

\* in_use_count > 0: count down, self._pool.append(obj), self._cond.notify()
ReleaseReturn(t, k) ==
    /\ in_use_count' = in_use_count - 1
    /\ pool' = Append(pool, k)
    /\ NotifyAndReturn(t)
    /\ last' = Step(t, "release", "returned")

ReleaseDiscard_Keep(t, k) ==
    /\ pool' = Append(pool, k)
    /\ last' = Step(t, "release", "discarded")
    /\ UNCHANGED <<in_use_count, waiters, pc>>

\* in_use_count == 0: a warning is logged and the object is dropped
ReleaseDiscard(t, k) ==
    /\ last' = Step(t, "release", "discarded")
    /\ UNCHANGED <<pool, in_use_count, waiters, pc>>

\* release(obj) by thread t of a checked-out object that acquire handed out as kind k.
\* resetFails: reset_object raises if called.
Release(t, k, resetFails) ==
    /\ pc[t] = "idle"
    /\ held[k] > 0
    /\ held' = [held EXCEPT ![k] = @ - 1]
    /\ IF has_reset /\ resetFails THEN ReleaseResetFailed(t)
       ELSE IF in_use_count > 0 THEN ReleaseReturn(t, k)
       ELSE ReleaseDiscard(t, k)
    /\ UNCHANGED <<max_size, block, has_reset, schedVars, memoryVars>>

\* clear()
Clear(t) ==
    /\ pc[t] = "idle"
    /\ pool' = <<>>
    /\ in_use_count' = 0
    /\ last' = Step(t, "clear", "none")
    /\ UNCHANGED <<max_size, block, has_reset, waiters, pc, held, schedVars, memoryVars>>

PoolNext ==
    \E t \in Threads :
        \/ Acquire(t)
        \/ AcquireResume(t)
        \/ WaitExpire(t)
        \/ WaitTimeout(t)
        \/ \E k \in Kinds, resetFails \in BOOLEAN : Release(t, k, resetFails)
        \/ Clear(t)

(***************************************************************************)
(* ThreadPool                                                              *)
(***************************************************************************)
\* TaskPriority
LOW == 0
MEDIUM == 1
HIGH == 2
CRITICAL == 3

Priorities == {LOW, MEDIUM, HIGH, CRITICAL}

\* the submission sequence of the scheduler's ordering scenario
GatePlan == <<LOW, HIGH, LOW, CRITICAL, MEDIUM>>

TaskIds == 1..Len(tasks)

TaskLt_Ascending(a, b) ==
    IF tasks[a].priority = tasks[b].priority
    THEN tasks[a].created_at < tasks[b].created_at
    ELSE tasks[a].priority < tasks[b].priority

\* Task.__lt__
TaskLt(a, b) ==
    IF tasks[a].priority = tasks[b].priority
    THEN tasks[a].created_at < tasks[b].created_at
    ELSE tasks[a].priority > tasks[b].priority

\* heapq._siftdown(heap, startpos, pos) with newitem = heap[pos]; the list is
\* indexed from 0 in the code and from 1 here
RECURSIVE SiftDown(_, _, _, _)
SiftDown(heap, startpos, pos, newitem) ==
    IF pos > startpos
    THEN LET parentpos == (pos - 1) \div 2
             parent == heap[parentpos + 1]
         IN  IF TaskLt(newitem, parent)
             THEN SiftDown([heap EXCEPT ![pos + 1] = parent], startpos, parentpos, newitem)
             ELSE [heap EXCEPT ![pos + 1] = newitem]
    ELSE [heap EXCEPT ![pos + 1] = newitem]

\* heapq._siftup(heap, pos): the smaller child is moved up until a leaf is
\* reached, then newitem is sifted down from there
RECURSIVE SiftUp(_, _, _, _)
SiftUp(heap, startpos, pos, newitem) ==
    LET endpos == Len(heap)
        childpos == 2 * pos + 1
        rightpos == childpos + 1
        smaller == IF rightpos < endpos /\ ~TaskLt(heap[childpos + 1], heap[rightpos + 1])
                   THEN rightpos ELSE childpos
    IN  IF childpos < endpos
        THEN SiftUp([heap EXCEPT ![pos + 1] = heap[smaller + 1]], startpos, smaller, newitem)
        ELSE SiftDown([heap EXCEPT ![pos + 1] = newitem], startpos, pos, newitem)

\* PriorityQueue._put: heappush(self.queue, item)
HeapPush(heap, item) ==
    SiftDown(Append(heap, item), 0, Len(heap), item)

\* PriorityQueue._get: heappop(self.queue), the list that remains
HeapPopRest(heap) ==
    LET lastelt == heap[Len(heap)]
        rest == SubSeq(heap, 1, Len(heap) - 1)
    IN  IF rest = <<>> THEN rest
        ELSE SiftUp([rest EXCEPT ![1] = lastelt], 0, 0, lastelt)

\* PriorityQueue._get: heappop(self.queue), the item returned
HeapPopItem(heap) == heap[1]

\* the variables of the scheduler's lifecycle calls
lifeVars == <<shutdown, resizer, closer, refusal>>

\* the executor self._executor refers to
Current == Len(executors)

\* ThreadPoolExecutor(max_workers=n): its own limit, its _shutdown flag and its
\* _work_queue (work items handed to it, oldest first)
NewExecutor(n) == [max_workers |-> n, shut |-> FALSE, work_queue |-> <<>>]

\* _dispatch_tasks, `while not self._is_shutdown()`: where a dispatcher thread
\* goes from the top of its loop
LoopTop == [pc |-> IF shutdown THEN "exited" ELSE "get", task |-> 0]

\* the tasks in the priority queue
Queued == {task_queue[n] : n \in 1..Len(task_queue)}

\* ThreadPool(max_workers), and a ThreadPoolMonitor(thread_pool) that has
\* not been started
SchedInit ==
    /\ running = FALSE
    /\ reporter_thread = "none"
    /\ custom_log_callback = FALSE
    /\ log_ticks = 0
    /\ callback_calls = 0
    /\ reported = [outcome |-> "none"]
    /\ clock = 0
    /\ tasks = <<>>
    /\ task_queue = <<>>
    /\ max_workers \in 1..MaxWorkers
    /\ executors = <<NewExecutor(max_workers)>>
    /\ dispatchers = <<[pc |-> "get", task |-> 0]>>
    /\ stats = [total_tasks |-> 0, completed_tasks |-> 0, failed_tasks |-> 0,
                active_tasks |-> 0]
    /\ gate = FALSE
    /\ shutdown = FALSE
    /\ resizer = [pc |-> "idle", n |-> 0]
    /\ closer = [pc |-> "idle", wait |-> FALSE, accepted |-> {}, executor |-> 0,
                 thread |-> 0, timed_out |-> FALSE]
    /\ refusal = "none"

\* the priorities submitted so far, in the order of the submit calls
Submitted == [i \in TaskIds |-> tasks[i].priority]

\* no task has been dequeued yet
NoneDequeued == \A i \in TaskIds : tasks[i].stage \in {"created", "queued"}

\* the submit calls that have not returned yet
InSubmit == {i \in TaskIds : ~tasks[i].returned}

\* submit on a scheduler that is shut down: RuntimeError, nothing else happens
SubmitRejected ==
    /\ shutdown
    /\ refusal' = "SubmitClosed"
    /\ UNCHANGED <<clock, tasks, task_queue, max_workers, executors, dispatchers, stats,
                   gate, shutdown, resizer, closer, poolVars, memoryVars>>

\* submit, first part: _is_shutdown() is false, the Future and the Task are
\* created, created_at = time.time().  elapsed: the clock has moved on since it
\* was read last.
SubmitCreate(p, elapsed) ==
    /\ ~shutdown
    /\ clock' = IF elapsed THEN clock + 1 ELSE clock
    /\ tasks' = Append(tasks, [priority |-> p, created_at |-> clock', stage |-> "created",
                               returned |-> FALSE, future |-> "pending",
                               executor |-> 0])
    /\ UNCHANGED <<task_queue, max_workers, executors, dispatchers, stats, gate,
                   lifeVars, poolVars, memoryVars>>

\* submit, second part: self._task_queue.put(task)
SubmitPut(i) ==
    /\ tasks[i].stage = "created"
    /\ tasks' = [tasks EXCEPT ![i].stage = "queued"]
    /\ task_queue' = HeapPush(task_queue, i)
    /\ UNCHANGED <<clock, max_workers, executors, dispatchers, stats, gate, lifeVars,
                   poolVars, memoryVars>>

\* submit, last part: total_tasks += 1 under the stats lock, the future is returned
SubmitReturn(i) ==
    /\ tasks[i].stage # "created"
    /\ ~tasks[i].returned
    /\ tasks' = [tasks EXCEPT ![i].returned = TRUE]
    /\ stats' = [stats EXCEPT !.total_tasks = @ + 1]
    /\ UNCHANGED <<clock, task_queue, max_workers, executors, dispatchers, gate,
                   lifeVars, poolVars, memoryVars>>

DispatchGet_Peek(d) ==
    /\ dispatchers[d].pc = "get"
    /\ task_queue # <<>>
    /\ dispatchers' = [dispatchers EXCEPT ![d] = [pc |-> "count",
                                                   task |-> HeapPopItem(task_queue)]]
    /\ tasks' = [tasks EXCEPT ![HeapPopItem(task_queue)].stage = "taken"]
    /\ gate' = IF NoneDequeued THEN Len(task_queue) = Len(GatePlan) ELSE gate
    /\ UNCHANGED <<clock, task_queue, max_workers, executors, stats, lifeVars, poolVars, memoryVars>>

\* _dispatch_tasks: task = self._task_queue.get(timeout=0.1) finds a task
DispatchGet(d) ==
    /\ dispatchers[d].pc = "get"
    /\ task_queue # <<>>
    /\ dispatchers' = [dispatchers EXCEPT ![d] = [pc |-> "count",
                                                   task |-> HeapPopItem(task_queue)]]
    /\ task_queue' = HeapPopRest(task_queue)
    /\ tasks' = [tasks EXCEPT ![HeapPopItem(task_queue)].stage = "taken"]
    /\ gate' = IF NoneDequeued THEN Len(task_queue) = Len(GatePlan) ELSE gate
    /\ UNCHANGED <<clock, max_workers, executors, stats, lifeVars, poolVars, memoryVars>>

\* _dispatch_tasks: the get timed out (queue.Empty, continue) and the loop
\* condition finds the scheduler shut down: the thread ends
DispatchExit(d) ==
    /\ dispatchers[d].pc = "get"
    /\ shutdown
    /\ dispatchers' = [dispatchers EXCEPT ![d].pc = "exited"]
    /\ UNCHANGED <<clock, tasks, task_queue, max_workers, executors, stats, gate,
                   lifeVars, poolVars, memoryVars>>

\* _dispatch_tasks: active_tasks += 1 under the stats lock
DispatchCount(d) ==
    /\ dispatchers[d].pc = "count"
    /\ stats' = [stats EXCEPT !.active_tasks = @ + 1]
    /\ dispatchers' = [dispatchers EXCEPT ![d].pc = "hand"]
    /\ UNCHANGED <<clock, tasks, task_queue, max_workers, executors, gate, lifeVars,
                   poolVars, memoryVars>>

\* _dispatch_tasks: self._executor.submit(self._execute_task, task) accepts the
\* work item; the thread goes back to the top of its loop
DispatchHand(d) ==
    /\ dispatchers[d].pc = "hand"
    /\ ~executors[Current].shut
    /\ executors' = [executors EXCEPT ![Current].work_queue =
                         Append(@, dispatchers[d].task)]
    /\ tasks' = [tasks EXCEPT ![dispatchers[d].task].stage = "handed",
                              ![dispatchers[d].task].executor = Current]
    /\ dispatchers' = [dispatchers EXCEPT ![d] = LoopTop]
    /\ UNCHANGED <<clock, task_queue, max_workers, stats, gate, lifeVars, poolVars, memoryVars>>

\* _dispatch_tasks: self._executor.submit raises RuntimeError because the
\* executor has been shut down; `except Exception` logs it and the loop goes
\* on.  The task is in no queue any more, its future stays pending and
\* active_tasks stays counted up.
DispatchRefused(d) ==
    /\ dispatchers[d].pc = "hand"
    /\ executors[Current].shut
    /\ tasks' = [tasks EXCEPT ![dispatchers[d].task].stage = "lost"]
    /\ dispatchers' = [dispatchers EXCEPT ![d] = LoopTop]
    /\ UNCHANGED <<clock, task_queue, max_workers, executors, stats, gate, lifeVars,
                   poolVars, memoryVars>>

\* the tasks a worker is executing
Running == {i \in TaskIds : tasks[i].stage \in {"running", "ran"}}

\* the tasks the workers of executor e are executing
RunningOn(e) == {i \in Running : tasks[i].executor = e}

\* a free worker of executor e takes the oldest work item and calls
\* _execute_task; an executor that was shut down still works its queue off
WorkerStart(e) ==
    /\ executors[e].work_queue # <<>>
    /\ Cardinality(RunningOn(e)) < executors[e].max_workers
    /\ executors' = [executors EXCEPT ![e].work_queue = Tail(@)]
    /\ tasks' = [tasks EXCEPT ![Head(executors[e].work_queue)].stage = "running"]
    /\ UNCHANGED <<clock, task_queue, max_workers, dispatchers, stats, gate, lifeVars,
                   poolVars, memoryVars>>

\* _execute_task, try: the payload returns; the future gets the result and
\* completed_tasks goes up
ExecuteReturns(i) ==
    /\ tasks[i].stage = "running"
    /\ tasks' = [tasks EXCEPT ![i].stage = "ran",
                              ![i].future = IF @ = "pending" THEN "value" ELSE @]
    /\ stats' = [stats EXCEPT !.completed_tasks = @ + 1]
    /\ UNCHANGED <<clock, task_queue, max_workers, executors, dispatchers, gate,
                   lifeVars, poolVars, memoryVars>>

ExecuteRaises_Escapes(i) ==
    /\ tasks[i].stage = "running"
    /\ tasks' = [tasks EXCEPT ![i].stage = "ran"]
    /\ stats' = [stats EXCEPT !.failed_tasks = @ + 1]
    /\ UNCHANGED <<clock, task_queue, max_workers, executors, dispatchers, gate,
                   lifeVars, poolVars, memoryVars>>

\* _execute_task, except: the payload raises; the future gets the exception and
\* failed_tasks goes up
ExecuteRaises(i) ==
    /\ tasks[i].stage = "running"
    /\ tasks' = [tasks EXCEPT ![i].stage = "ran",
                              ![i].future = IF @ = "pending" THEN "error" ELSE @]
    /\ stats' = [stats EXCEPT !.failed_tasks = @ + 1]
    /\ UNCHANGED <<clock, task_queue, max_workers, executors, dispatchers, gate,
                   lifeVars, poolVars, memoryVars>>

ExecuteFinally_OnSuccess(i) ==
    /\ tasks[i].stage = "ran"
    /\ tasks' = [tasks EXCEPT ![i].stage = "done"]
    /\ stats' = [stats EXCEPT !.active_tasks =
                     IF tasks[i].future = "value" THEN @ - 1 ELSE @]
    /\ UNCHANGED <<clock, task_queue, max_workers, executors, dispatchers, gate,
                   lifeVars, poolVars, memoryVars>>

\* _execute_task, finally: active_tasks -= 1, task_done()
ExecuteFinally(i) ==
    /\ tasks[i].stage = "ran"
    /\ tasks' = [tasks EXCEPT ![i].stage = "done"]
    /\ stats' = [stats EXCEPT !.active_tasks = @ - 1]
    /\ UNCHANGED <<clock, task_queue, max_workers, executors, dispatchers, gate,
                   lifeVars, poolVars, memoryVars>>

\* the steps of dispatcher thread d while the scheduler and its executor are open
DispatcherNext(d) ==
    \/ DispatchGet(d)
    \/ DispatchCount(d)
    \/ DispatchHand(d)

\* resize(new_max_workers) with new_max_workers <= 0: ValueError
ResizeInvalid(n) ==
    /\ resizer.pc = "idle"
    /\ n <= 0
    /\ refusal' = "ResizeValueError"
    /\ UNCHANGED <<clock, tasks, task_queue, max_workers, executors, dispatchers, stats,
                   gate, shutdown, resizer, closer, poolVars, memoryVars>>

\* resize on a scheduler that is shut down: RuntimeError
ResizeClosed(n) ==
    /\ resizer.pc = "idle"
    /\ n > 0
    /\ shutdown
    /\ refusal' = "ResizeClosed"
    /\ UNCHANGED <<clock, tasks, task_queue, max_workers, executors, dispatchers, stats,
                   gate, shutdown, resizer, closer, poolVars, memoryVars>>

ResizeShutOld_Cancel(n) ==
    /\ resizer.pc = "idle"
    /\ n > 0
    /\ ~shutdown
    /\ executors' = [executors EXCEPT ![Current].shut = TRUE,
                                      ![Current].work_queue = <<>>]
    /\ tasks' = [i \in TaskIds |->
                    IF tasks[i].stage = "handed" /\ tasks[i].executor = Current
                    THEN [tasks[i] EXCEPT !.stage = "lost"] ELSE tasks[i]]
    /\ resizer' = [pc |-> "install", n |-> n]
    /\ UNCHANGED <<clock, task_queue, max_workers, dispatchers, stats, gate,
                   shutdown, closer, refusal, poolVars, memoryVars>>

\* resize, first part: the checks pass and self._executor.shutdown(wait=False)
\* closes the executor in use
ResizeShutOld(n) ==
    /\ resizer.pc = "idle"
    /\ n > 0
    /\ ~shutdown
    /\ executors' = [executors EXCEPT ![Current].shut = TRUE]
    /\ resizer' = [pc |-> "install", n |-> n]
    /\ UNCHANGED <<clock, tasks, task_queue, max_workers, dispatchers, stats, gate,
                   shutdown, closer, refusal, poolVars, memoryVars>>

\* resize, second part: self._max_workers and self._executor are assigned and a
\* further dispatcher thread is started; the threads started before keep running
ResizeInstall ==
    /\ resizer.pc = "install"
    /\ max_workers' = resizer.n
    /\ executors' = Append(executors, NewExecutor(resizer.n))
    /\ dispatchers' = Append(dispatchers, LoopTop)
    /\ resizer' = [pc |-> "idle", n |-> 0]
    /\ UNCHANGED <<clock, tasks, task_queue, stats, gate, shutdown, closer, refusal,
                   poolVars, memoryVars>>

\* shutdown on a scheduler that is shut down already: returns at once
ShutdownAgain ==
    /\ closer.pc \in {"idle", "returned"}
    /\ shutdown
    /\ refusal' = "ShutdownAgain"
    /\ UNCHANGED <<clock, tasks, task_queue, max_workers, executors, dispatchers, stats,
                   gate, shutdown, resizer, closer, poolVars, memoryVars>>

\* shutdown, first part: self._shutdown = True under the shutdown lock.
\* accepted: the tasks whose submit call had returned by then, which a
\* shutdown that waits is to wait for.
ShutdownMark(wait) ==
    /\ closer.pc = "idle"
    /\ ~shutdown
    /\ shutdown' = TRUE
    /\ closer' = [closer EXCEPT !.pc = "executor", !.wait = wait,
                                !.accepted = IF wait THEN {i \in TaskIds : tasks[i].returned}
                                             ELSE {}]
    /\ UNCHANGED <<clock, tasks, task_queue, max_workers, executors, dispatchers, stats,
                   gate, resizer, refusal, poolVars, memoryVars>>

\* shutdown, second part: self._executor.shutdown(wait=wait, timeout=timeout)
\* raises TypeError before it does anything, self._executor.shutdown(wait=wait)
\* closes the executor in use
ShutdownExecutor ==
    /\ closer.pc = "executor"
    /\ executors' = [executors EXCEPT ![Current].shut = TRUE]
    /\ closer' = [closer EXCEPT !.pc = IF closer.wait THEN "workers" ELSE "returned",
                                !.executor = Current]
    /\ UNCHANGED <<clock, tasks, task_queue, max_workers, dispatchers, stats, gate,
                   shutdown, resizer, refusal, poolVars, memoryVars>>

\* shutdown(wait=True): self._executor.shutdown(wait=True) has joined the worker
\* threads of that executor, self._dispatcher_thread.join(timeout) begins
ShutdownWorkers ==
    /\ closer.pc = "workers"
    /\ executors[closer.executor].work_queue = <<>>
    /\ RunningOn(closer.executor) = {}
    /\ closer' = [closer EXCEPT !.pc = "join", !.thread = Len(dispatchers)]
    /\ UNCHANGED <<clock, tasks, task_queue, max_workers, executors, dispatchers, stats,
                   gate, shutdown, resizer, refusal, poolVars, memoryVars>>

\* shutdown(wait=True): the join of the dispatcher thread ends, because the
\* thread has ended or because the timeout has expired; shutdown returns
ShutdownJoin(timed_out) ==
    /\ closer.pc = "join"
    /\ timed_out = (dispatchers[closer.thread].pc # "exited")
    /\ closer' = [closer EXCEPT !.pc = "returned", !.timed_out = timed_out]
    /\ UNCHANGED <<clock, tasks, task_queue, max_workers, executors, dispatchers, stats,
                   gate, shutdown, resizer, refusal, poolVars, memoryVars>>

\* purge_queue on a scheduler that is shut down: returns at once
PurgeClosed ==
    /\ shutdown
    /\ refusal' = "PurgeClosed"
    /\ UNCHANGED <<clock, tasks, task_queue, max_workers, executors, dispatchers, stats,
                   gate, shutdown, resizer, closer, poolVars, memoryVars>>

PurgeQueue_Counted ==
    /\ ~shutdown
    /\ task_queue' = <<>>
    /\ tasks' = [i \in TaskIds |->
                    IF i \in Queued THEN [tasks[i] EXCEPT !.stage = "purged"]
                    ELSE tasks[i]]
    /\ stats' = [stats EXCEPT !.total_tasks = @ - Len(task_queue)]
    /\ UNCHANGED <<clock, max_workers, executors, dispatchers, gate, lifeVars, poolVars, memoryVars>>

\* purge_queue: self._task_queue.queue.clear() under the queue's mutex
PurgeQueue ==
    /\ ~shutdown
    /\ task_queue' = <<>>
    /\ tasks' = [i \in TaskIds |->
                    IF i \in Queued THEN [tasks[i] EXCEPT !.stage = "purged"]
                    ELSE tasks[i]]
    /\ UNCHANGED <<clock, max_workers, executors, dispatchers, stats, gate, lifeVars,
                   poolVars, memoryVars>>

\* the priorities the clients of the general specification submit with
ClientPriorities == {LOW, HIGH}

\* any number of client threads submit up to MaxTasks tasks, payloads return or
\* raise
SchedNext ==
    \/ \E p \in ClientPriorities, elapsed \in BOOLEAN :
          Len(tasks) < MaxTasks /\ SubmitCreate(p, elapsed)
    \/ \E i \in TaskIds : SubmitPut(i)
    \/ \E i \in TaskIds : SubmitReturn(i)
    \/ \E d \in DOMAIN dispatchers : DispatcherNext(d)
    \/ \E e \in DOMAIN executors : WorkerStart(e)
    \/ \E i \in TaskIds : ExecuteReturns(i)
    \/ \E i \in TaskIds : ExecuteRaises(i)
    \/ \E i \in TaskIds : ExecuteFinally(i)

\* the next submit of the ordering client may carry priority p: any priority for
\* the first MaxPlan tasks, and the scenario's submission sequence to its end
MaySubmit(p) ==
    \/ Len(tasks) < MaxPlan
    \/ /\ Len(tasks) < Len(GatePlan)
       /\ \A i \in TaskIds : GatePlan[i] = tasks[i].priority
       /\ GatePlan[Len(tasks) + 1] = p

\* one client thread submits task after task with any priorities, payloads return
OrderNext ==
    \/ \E p \in Priorities, elapsed \in BOOLEAN :
          InSubmit = {} /\ MaySubmit(p) /\ SubmitCreate(p, elapsed)
    \/ \E i \in TaskIds : SubmitPut(i)
    \/ \E i \in TaskIds : SubmitReturn(i)
    \/ \E d \in DOMAIN dispatchers : DispatcherNext(d)
    \/ \E e \in DOMAIN executors : WorkerStart(e)
    \/ \E i \in TaskIds : ExecuteReturns(i)
    \/ \E i \in TaskIds : ExecuteFinally(i)

\* the arguments resize is called with: one that is rejected and the largest
\* worker count
ResizeArgs == {0, MaxWorkers}

\* the client threads of a scheduler under lifecycle calls: up to MaxJobs tasks
\* of the default priority
ClientNext ==
    \/ Len(tasks) < MaxJobs /\ SubmitCreate(MEDIUM, TRUE)
    \/ \E i \in TaskIds : SubmitPut(i)
    \/ \E i \in TaskIds : SubmitReturn(i)

\* the dispatcher threads and the workers of the executors, open or shut down,
\* with payloads that return
WorkNext ==
    \/ \E d \in DOMAIN dispatchers : DispatcherNext(d)
    \/ \E d \in DOMAIN dispatchers : DispatchRefused(d)
    \/ \E e \in DOMAIN executors : WorkerStart(e)
    \/ \E i \in TaskIds : ExecuteReturns(i)
    \/ \E i \in TaskIds : ExecuteFinally(i)

\* a scheduler that is resized while clients submit and tasks execute
ResizeNext ==
    \/ ClientNext
    \/ WorkNext
    \/ \E i \in TaskIds : ExecuteRaises(i)
    \/ \E n \in ResizeArgs : ResizeInvalid(n)
    \/ \E n \in ResizeArgs : Len(executors) <= MaxResizes /\ ResizeShutOld(n)
    \/ ResizeInstall

\* a scheduler that is resized to a single worker while clients submit and
\* tasks execute
ShrinkNext ==
    \/ ClientNext
    \/ WorkNext
    \/ Len(executors) <= MaxResizes /\ ResizeShutOld(1)
    \/ ResizeInstall

\* a scheduler with up to MaxFairJobs tasks that is resized and in the end
\* closed with shutdown(wait=False)
FairNext ==
    \/ Len(tasks) < MaxFairJobs /\ SubmitCreate(MEDIUM, TRUE)
    \/ \E i \in TaskIds : SubmitPut(i)
    \/ \E i \in TaskIds : SubmitReturn(i)
    \/ WorkNext
    \/ \E d \in DOMAIN dispatchers : DispatchExit(d)
    \/ \E n \in ResizeArgs : ResizeInvalid(n)
    \/ \E n \in ResizeArgs : ResizeClosed(n)
    \/ \E n \in ResizeArgs : Len(executors) <= MaxResizes /\ ResizeShutOld(n)
    \/ ResizeInstall
    \/ ShutdownMark(FALSE)
    \/ ShutdownExecutor

\* a scheduler that is purged and shut down while clients submit and tasks execute
CloseNext ==
    \/ ClientNext
    \/ WorkNext
    \/ \E i \in TaskIds : ExecuteRaises(i)
    \/ SubmitRejected
    \/ \E d \in DOMAIN dispatchers : DispatchExit(d)
    \/ PurgeQueue
    \/ PurgeClosed
    \/ \E n \in ResizeArgs : ResizeClosed(n)
    \/ \E wait \in BOOLEAN : ShutdownMark(wait)
    \/ ShutdownExecutor
    \/ ShutdownWorkers
    \/ \E timed_out \in BOOLEAN : ShutdownJoin(timed_out)
    \/ ShutdownAgain

(***************************************************************************)
(* ThreadPoolMonitor                                                       *)
(***************************************************************************)
\* ThreadPool.get_stats(): a copy of self._stats, taken under the statistics
\* lock, with queue_size, max_workers and is_shutdown added
GetStats ==
    [total_tasks |-> stats.total_tasks,
     completed_tasks |-> stats.completed_tasks,
     failed_tasks |-> stats.failed_tasks,
     active_tasks |-> stats.active_tasks,
     queue_size |-> Len(task_queue),
     max_workers |-> max_workers,
     is_shutdown |-> shutdown]

\* the keys of the statistics the log message of _log_stats is formatted
\* from (lines 55-62)
LogMessageKeys == {"active_tasks", "queue_size", "max_queue_size", "completed_tasks",
                   "failed_tasks", "max_workers", "is_shutdown"}

\* set_custom_log_callback(callback)
SetCustomLogCallback ==
    /\ ~custom_log_callback
    /\ custom_log_callback' = TRUE
    /\ UNCHANGED <<running, reporter_thread, log_ticks, callback_calls, reported,
                   schedVars, outsideReporter>>

\* start() while not running: the flag is set and the thread is created and
\* started.  The thread of an earlier start has ended.
StartReporter ==
    /\ ~running
    /\ reporter_thread \in {"none", "dead"}
    /\ running' = TRUE
    /\ reporter_thread' = "test"
    /\ UNCHANGED <<custom_log_callback, log_ticks, callback_calls, reported, schedVars,
                   outsideReporter>>

\* stop() while running: the flag is cleared; the join follows
StopReporter ==
    /\ running
    /\ running' = FALSE
    /\ UNCHANGED <<reporter_thread, custom_log_callback, log_ticks, callback_calls,
                   reported, schedVars, outsideReporter>>

\* _monitor_loop: while self._running
ReporterLoopTest ==
    /\ reporter_thread = "test"
    /\ reporter_thread' = IF running THEN "log" ELSE "dead"
    /\ UNCHANGED <<running, custom_log_callback, log_ticks, callback_calls, reported,
                   schedVars, outsideReporter>>

\* _monitor_loop calls _log_stats(): the statistics are read, the log message
\* is formatted from them, and the custom callback, when one is set, is
\* called with them; a KeyError of the formatting or an exception of the
\* callback (callback_raises) is caught and logged.  The loop then sleeps and
\* goes to its test.
LogStats(callback_raises) ==
    LET thread_pool_stats == GetStats
        key_error == ~(LogMessageKeys \subseteq DOMAIN thread_pool_stats)
        called == ~key_error /\ custom_log_callback
    IN  /\ reporter_thread = "log"
        /\ log_ticks < MaxLogTicks
        /\ log_ticks' = log_ticks + 1
        /\ callback_calls' = IF called THEN callback_calls + 1 ELSE callback_calls
        /\ reported' = IF key_error THEN [outcome |-> "KeyError"]
                       ELSE IF called /\ callback_raises THEN [outcome |-> "callback_error"]
                       ELSE [outcome |-> "logged", stats |-> thread_pool_stats]
        /\ reporter_thread' = "test"
        /\ UNCHANGED <<running, custom_log_callback, schedVars, outsideReporter>>

\* a scheduler that takes and runs tasks while its monitor reports
ReporterNext ==
    \/ ClientNext
    \/ \E d \in DOMAIN dispatchers : DispatcherNext(d)
    \/ \E e \in DOMAIN executors : WorkerStart(e)
    \/ \E i \in TaskIds : ExecuteReturns(i)
    \/ \E i \in TaskIds : ExecuteFinally(i)
    \/ SetCustomLogCallback
    \/ StartReporter
    \/ StopReporter
    \/ ReporterLoopTest
    \/ \E callback_raises \in BOOLEAN : LogStats(callback_raises)

(***************************************************************************)
(* MemoryMonitor                                                           *)
(***************************************************************************)
\* MemoryAlertLevel
MemoryAlertLevel_NORMAL == 0
MemoryAlertLevel_WARNING == 1
MemoryAlertLevel_CRITICAL == 2

\* percentages are floats in the code; here they are counted in tenths of a
\* percent, Scale tenths to the percent
Scale == 10

\* the percentages set_thresholds and the constructor are called with:
\* -1, 0, 50, 60, 70, 85, 100 and 101 percent
ThresholdArgs == {-1 * Scale, 0, 50 * Scale, 60 * Scale, 70 * Scale, 85 * Scale,
                  100 * Scale, 101 * Scale}

\* the memory percentages that are sampled: each threshold and the tenth below it
Percents == {0, 50 * Scale - 1, 50 * Scale, 60 * Scale - 1, 60 * Scale, 70 * Scale - 1,
             70 * Scale, 85 * Scale - 1, 85 * Scale, 100 * Scale}

\* set_thresholds: 0 <= threshold <= 100
InRange(v) == 0 <= v /\ v <= 100 * Scale

\* MemoryMonitor(warning_threshold=w, critical_threshold=c) with percentages
\* in range and w < c; the default is (70.0, 85.0)
MonitorInit ==
    /\ warning_threshold \in {v \in ThresholdArgs : InRange(v)}
    /\ critical_threshold \in {v \in ThresholdArgs : InRange(v)}
    /\ warning_threshold < critical_threshold
    /\ classified = [percent |-> 0, level |-> MemoryAlertLevel_NORMAL]
    /\ threshold_call = [outcome |-> "none", seq |-> 0]
    /\ stop_monitoring = FALSE
    /\ monitor_thread = 0
    /\ loops = <<>>
    /\ stopper = [pc |-> "idle"]
    /\ sampler_call = [op |-> "none", outcome |-> "none", seq |-> 0]
    /\ alert_callbacks = <<>>
    /\ alert_count = 0

CheckAlertLevel_Strict(percent) ==
    IF percent > critical_threshold THEN MemoryAlertLevel_CRITICAL
    ELSE IF percent > warning_threshold THEN MemoryAlertLevel_WARNING
    ELSE MemoryAlertLevel_NORMAL

\* _check_alert_level(stats) with stats.percent = percent
CheckAlertLevel(percent) ==
    IF percent >= critical_threshold THEN MemoryAlertLevel_CRITICAL
    ELSE IF percent >= warning_threshold THEN MemoryAlertLevel_WARNING
    ELSE MemoryAlertLevel_NORMAL

\* _monitor_loop: alert_level = self._check_alert_level(stats) for a sample
\* with stats.percent = percent
Classify(percent) ==
    /\ classified' = [percent |-> percent, level |-> CheckAlertLevel(percent)]
    /\ UNCHANGED <<warning_threshold, critical_threshold, threshold_call, samplerVars,
                   outsideMonitor>>

\* set_thresholds(warning_threshold, critical_threshold); has_w and has_c: the
\* argument is not None.  The statements run in the order of the code: the
\* warning threshold is checked and assigned, then the critical threshold, then
\* the two attributes are compared.
SetThresholds(has_w, w, has_c, c) ==
    LET w_raises == has_w /\ ~InRange(w)
        w_after == IF has_w /\ InRange(w) THEN w ELSE warning_threshold
        c_raises == ~w_raises /\ has_c /\ ~InRange(c)
        c_after == IF ~w_raises /\ has_c /\ InRange(c) THEN c ELSE critical_threshold
        order_raises == ~w_raises /\ ~c_raises /\ c_after <= w_after
    IN  /\ warning_threshold' = w_after
        /\ critical_threshold' = c_after
        /\ threshold_call' =
              [outcome |-> IF w_raises \/ c_raises \/ order_raises THEN "ValueError"
                           ELSE "ok",
               seq |-> 1 - threshold_call.seq]
        /\ UNCHANGED <<classified, samplerVars, outsideMonitor>>

MonitorNext ==
    \/ \E percent \in Percents : Classify(percent)
    \/ \E has_w, has_c \in BOOLEAN, w, c \in ThresholdArgs :
          SetThresholds(has_w, w, has_c, c)

\* self._monitor_thread and self._monitor_thread.is_alive()
IsAlive == monitor_thread # 0 /\ loops[monitor_thread].pc # "dead"

\* the loop threads that have not returned from _monitor_loop
AliveLoops == {l \in DOMAIN loops : loops[l].pc # "dead"}

\* a thread that enters _monitor_loop
NewLoop == [pc |-> "test", percent |-> 0, level |-> MemoryAlertLevel_NORMAL,
            index |-> 0, registered |-> <<>>, invoked |-> <<>>, raised |-> FALSE]

\* the start or stop call that returns
Returned(op, outcome) == [op |-> op, outcome |-> outcome, seq |-> 1 - sampler_call.seq]

\* start() while the loop thread is alive: a warning and nothing else
StartAlready ==
    /\ stopper.pc = "idle"
    /\ IsAlive
    /\ sampler_call' = Returned("start", "already_running")
    /\ UNCHANGED <<stop_monitoring, monitor_thread, loops, stopper, alert_callbacks,
                   alert_count, monitorVars, outsideMonitor>>

Start_Unchecked ==
    /\ stopper.pc = "idle"
    /\ Len(loops) < MaxLoops
    /\ stop_monitoring' = FALSE
    /\ loops' = Append(loops, NewLoop)
    /\ monitor_thread' = Len(loops) + 1
    /\ sampler_call' = Returned("start", "started")
    /\ UNCHANGED <<stopper, alert_callbacks, alert_count, monitorVars, outsideMonitor>>

\* start() while there is no loop thread or it has ended: the flag is cleared
\* and a new thread is created and started, all under self._monitor_lock
Start ==
    /\ stopper.pc = "idle"
    /\ ~IsAlive
    /\ Len(loops) < MaxLoops
    /\ stop_monitoring' = FALSE
    /\ loops' = Append(loops, NewLoop)
    /\ monitor_thread' = Len(loops) + 1
    /\ sampler_call' = Returned("start", "started")
    /\ UNCHANGED <<stopper, alert_callbacks, alert_count, monitorVars, outsideMonitor>>

\* stop() while there is no loop thread or it has ended: a warning and nothing else
StopNotRunning ==
    /\ stopper.pc = "idle"
    /\ ~IsAlive
    /\ sampler_call' = Returned("stop", "not_running")
    /\ UNCHANGED <<stop_monitoring, monitor_thread, loops, stopper, alert_callbacks,
                   alert_count, monitorVars, outsideMonitor>>

\* stop() while the loop thread is alive: the flag is set and the caller
\* begins to join the thread, holding self._monitor_lock
StopBegin ==
    /\ stopper.pc = "idle"
    /\ IsAlive
    /\ stop_monitoring' = TRUE
    /\ stopper' = [pc |-> "join"]
    /\ UNCHANGED <<monitor_thread, loops, sampler_call, alert_callbacks, alert_count,
                   monitorVars, outsideMonitor>>

\* self._monitor_thread.join(timeout=2.0) returns: the thread has ended or
\* the two seconds have passed (the loop sleeps check_interval between ticks)
StopJoin(timed_out) ==
    /\ stopper.pc = "join"
    /\ timed_out = IsAlive
    /\ stopper' = [pc |-> "idle"]
    /\ sampler_call' = Returned("stop", IF timed_out THEN "timed_out" ELSE "stopped")
    /\ UNCHANGED <<stop_monitoring, monitor_thread, loops, alert_callbacks, alert_count,
                   monitorVars, outsideMonitor>>

\* _monitor_loop: while not self._stop_monitoring
LoopTest(l) ==
    /\ loops[l].pc = "test"
    /\ loops' = [loops EXCEPT ![l] = [NewLoop EXCEPT !.pc = IF stop_monitoring THEN "dead"
                                                            ELSE "sample"]]
    /\ UNCHANGED <<stop_monitoring, monitor_thread, stopper, sampler_call, alert_callbacks,
                   alert_count, monitorVars, outsideMonitor>>

\* _monitor_loop: a sample with stats.percent = percent is taken and
\* classified; a NORMAL tick ends in the sleep, any other goes on to
\* _trigger_alert
LoopSample(l, percent) ==
    LET alert_level == CheckAlertLevel(percent)
    IN  /\ loops[l].pc = "sample"
        /\ alert_level # MemoryAlertLevel_NORMAL => alert_count < MaxAlerts
        /\ classified' = [percent |-> percent, level |-> alert_level]
        /\ loops' = [loops EXCEPT ![l] =
              [NewLoop EXCEPT !.pc = IF alert_level = MemoryAlertLevel_NORMAL THEN "test"
                                     ELSE "alert",
                              !.percent = percent,
                              !.level = alert_level]]
        /\ UNCHANGED <<warning_threshold, critical_threshold, threshold_call,
                       stop_monitoring, monitor_thread, stopper, sampler_call,
                       alert_callbacks, alert_count, outsideMonitor>>

\* _monitor_loop: the tick raises before the classification (psutil fails);
\* the error is logged and the loop sleeps
LoopSampleFails(l) ==
    /\ loops[l].pc = "sample"
    /\ loops' = [loops EXCEPT ![l] = NewLoop]
    /\ UNCHANGED <<stop_monitoring, monitor_thread, stopper, sampler_call, alert_callbacks,
                   alert_count, monitorVars, outsideMonitor>>

\* _trigger_alert: the alert is logged and counted under self._stats_lock,
\* and the for statement takes an iterator of self._alert_callbacks
LoopAlert(l) ==
    /\ loops[l].pc = "alert"
    /\ alert_count' = alert_count + 1
    /\ loops' = [loops EXCEPT ![l].pc = "callbacks",
                              ![l].index = 0,
                              ![l].registered = alert_callbacks]
    /\ UNCHANGED <<stop_monitoring, monitor_thread, stopper, sampler_call, alert_callbacks,
                   monitorVars, outsideMonitor>>

\* _trigger_alert: the list iterator yields the element of the list at its
\* index, as the list is now, and callback(stats, alert_level) is called; an
\* Exception it raises is logged and the iteration goes on
LoopCallback(l, raises) ==
    /\ loops[l].pc = "callbacks"
    /\ loops[l].index < Len(alert_callbacks)
    /\ loops' = [loops EXCEPT
          ![l].index = @ + 1,
          ![l].invoked = Append(@, [callback |-> alert_callbacks[loops[l].index + 1],
                                    percent |-> loops[l].percent,
                                    level |-> loops[l].level]),
          ![l].raised = @ \/ raises]
    /\ UNCHANGED <<stop_monitoring, monitor_thread, stopper, sampler_call, alert_callbacks,
                   alert_count, monitorVars, outsideMonitor>>

\* _trigger_alert: the iterator's index has reached the length of the list,
\* the for statement ends and the tick goes on to the sleep; its locals are
\* dropped
LoopAlertDone(l) ==
    /\ loops[l].pc = "callbacks"
    /\ loops[l].index >= Len(alert_callbacks)
    /\ loops' = [loops EXCEPT ![l] = NewLoop]
    /\ UNCHANGED <<stop_monitoring, monitor_thread, stopper, sampler_call, alert_callbacks,
                   alert_count, monitorVars, outsideMonitor>>

\* the callbacks a client registers
Callbacks == 1 .. NumCallbacks

\* the elements of a list
Range(list) == {list[k] : k \in DOMAIN list}

\* list.remove(x): the list without its first x
Remove(list, x) ==
    LET at == CHOOSE k \in DOMAIN list : list[k] = x /\ \A j \in 1 .. k - 1 : list[j] # x
    IN  SubSeq(list, 1, at - 1) \o SubSeq(list, at + 1, Len(list))

\* add_alert_callback(callback), called with a callback that is not registered
AddAlertCallback(callback) ==
    /\ callback \notin Range(alert_callbacks)
    /\ alert_callbacks' = Append(alert_callbacks, callback)
    /\ UNCHANGED <<stop_monitoring, monitor_thread, loops, stopper, sampler_call,
                   alert_count, monitorVars, outsideMonitor>>

\* remove_alert_callback(callback) with a registered callback, called by any
\* thread, the loop thread inside a callback included
RemoveAlertCallback(callback) ==
    /\ callback \in Range(alert_callbacks)
    /\ alert_callbacks' = Remove(alert_callbacks, callback)
    /\ UNCHANGED <<stop_monitoring, monitor_thread, loops, stopper, sampler_call,
                   alert_count, monitorVars, outsideMonitor>>

\* the memory percentages of the sampler's ticks: one of each level under the
\* default thresholds
TickPercents == {0, 70 * Scale, 85 * Scale}

\* the steps of a loop thread whose monitor has no callback registered
LoopNext ==
    \E l \in DOMAIN loops :
        \/ LoopTest(l)
        \/ \E percent \in TickPercents : LoopSample(l, percent)
        \/ LoopSampleFails(l)
        \/ LoopAlert(l)
        \/ LoopAlertDone(l)

\* start and stop calls, made by any thread at any time, and the loop threads
SamplerNext ==
    \/ Start
    \/ StartAlready
    \/ StopNotRunning
    \/ StopBegin
    \/ \E timed_out \in BOOLEAN : StopJoin(timed_out)
    \/ LoopNext

\* a sampler that is started and left running while callbacks are registered
\* and unregistered
AlertNext ==
    \/ Start
    \/ LoopNext
    \/ \E l \in DOMAIN loops, raises \in BOOLEAN : LoopCallback(l, raises)
    \/ \E callback \in Callbacks : AddAlertCallback(callback)
    \/ \E callback \in Callbacks : RemoveAlertCallback(callback)

(***************************************************************************)
(* GarbageCollectionMonitor                                                *)
(***************************************************************************)
\* the total_size of a snapshot
Sizes == {0, 100, 110, 115, 135}

\* growth_threshold is a float in the code; here it is counted in tenths
Tenths == 10

\* the growth thresholds detect_memory_leaks is called with, in tenths: 1.0
\* and the default 1.1
GrowthThresholds == {10, 11}

\* the min_snapshots detect_memory_leaks is called with, a positive count; the
\* default is 3
MinSnapshots == 1 .. MaxSnapshots

\* GarbageCollectionMonitor(max_snapshots=MaxSnapshots): no snapshot is taken yet
GcInit ==
    /\ snapshots = <<>>
    /\ leak_call = [outcome |-> "none"]

\* _take_snapshot: a snapshot with the total size total_size is appended and
\* the oldest is dropped when there are more than max_snapshots; the caller
\* of an earlier detect_memory_leaks has let go of its result
TakeSnapshot(total_size) ==
    /\ snapshots' = IF Len(snapshots) + 1 > MaxSnapshots
                    THEN Tail(Append(snapshots, total_size))
                    ELSE Append(snapshots, total_size)
    /\ leak_call' = [outcome |-> "none"]
    /\ UNCHANGED outsideGc

\* a / b > growth_threshold for sizes a and b > 0; the sizes are byte counts
\* far below 2^53, where the float quotient compares with the threshold as
\* the exact one does
Exceeds(a, b, growth_threshold) == a * Tenths > growth_threshold * b

RecentSnapshots_Oldest(min_snapshots) ==
    SubSeq(snapshots, 1, min_snapshots)

\* recent_snapshots = self._snapshots[-min_snapshots:] with min_snapshots > 0
RecentSnapshots(min_snapshots) ==
    SubSeq(snapshots, Len(snapshots) - min_snapshots + 1, Len(snapshots))

ConsistentGrowth_PairOnly(recent, i, growth_threshold) == TRUE

\* the inner loop over j: curr is recent[i]; every earlier snapshot
\* recent[i - j] with a positive size must lie below curr by more than the
\* threshold
ConsistentGrowth(recent, i, growth_threshold) ==
    \A j \in 2 .. Len(recent) - 1 :
        (i - j >= 1 /\ recent[i - j] > 0) =>
            Exceeds(recent[i], recent[i - j], growth_threshold)

\* the body of the outer loop: the pair (prev, curr) = (recent[i - 1], recent[i])
\* is appended to potential_leaks
IsPotentialLeak(recent, i, growth_threshold) ==
    /\ recent[i - 1] > 0
    /\ Exceeds(recent[i], recent[i - 1], growth_threshold)
    /\ ConsistentGrowth(recent, i, growth_threshold)

\* potential_leaks after the outer loop has handled the pairs up to (i - 1, i);
\* start and end are the places of prev and curr in recent_snapshots
RECURSIVE PotentialLeaks(_, _, _)
PotentialLeaks(recent, i, growth_threshold) ==
    IF i < 2 THEN <<>>
    ELSE LET before == PotentialLeaks(recent, i - 1, growth_threshold)
         IN  IF IsPotentialLeak(recent, i, growth_threshold)
             THEN Append(before, [start |-> i - 1, end |-> i,
                                  start_size |-> recent[i - 1], end_size |-> recent[i],
                                  size_diff |-> recent[i] - recent[i - 1]])
             ELSE before

\* detect_memory_leaks(min_snapshots, growth_threshold) returns
DetectMemoryLeaks(min_snapshots, growth_threshold) ==
    /\ leak_call' =
          [outcome |-> "returned",
           min_snapshots |-> min_snapshots,
           growth_threshold |-> growth_threshold,
           potential_leaks |->
              IF Len(snapshots) < min_snapshots THEN <<>>
              ELSE PotentialLeaks(RecentSnapshots(min_snapshots), min_snapshots,
                                  growth_threshold)]
    /\ UNCHANGED <<snapshots, outsideGc>>

GcNext ==
    \/ \E total_size \in Sizes : TakeSnapshot(total_size)
    \/ \E min_snapshots \in MinSnapshots, growth_threshold \in GrowthThresholds :
          DetectMemoryLeaks(min_snapshots, growth_threshold)

\* the inspector of a process that does not use it
GcIdle == GcInit

(***************************************************************************)
(* MemoryAlertManager                                                      *)
(***************************************************************************)
\* the levels that have alert configurations
AlertLevels == {MemoryAlertLevel_WARNING, MemoryAlertLevel_CRITICAL}

\* AlertAction
AlertActions == {"LOG", "EMAIL", "WEBHOOK", "CUSTOM"}

\* the cooldown periods rules are configured with, in seconds; the default is 300
Cooldowns == {1, 300}

\* AlertConfig
AlertConfigs == [action : AlertActions, enabled : BOOLEAN, cooldown_period : Cooldowns]

\* the rule lists the WARNING level is configured with: up to two rules
RuleLists == {<<>>} \cup {<<a>> : a \in AlertConfigs}
                    \cup {<<a, b>> : a \in AlertConfigs, b \in AlertConfigs}

\* time.time() when the first alert arrives
Epoch == 1000

\* the seconds between an alert and the next
Delays == {1, 299, 300}

\* MemoryAlertManager(memory_monitor) followed by add_alert_config calls; the
\* CRITICAL level has one email rule with the default cooldown
RouterInit ==
    /\ alert_configs \in
          {[level \in AlertLevels |->
               IF level = MemoryAlertLevel_WARNING THEN rules
               ELSE <<[action |-> "EMAIL", enabled |-> TRUE, cooldown_period |-> 300]>>] :
             rules \in RuleLists}
    /\ last_alert_times = [level \in AlertLevels |-> 0]
    /\ now = Epoch
    /\ dispatched_at = [level \in AlertLevels |-> 0]
    /\ handled = [outcome |-> "none"]
    /\ routed = 0

\* the rule passes the checks of the loop body: enabled, and the cooldown
\* period has passed since last_alert_time
Passes(config, current_time, last_alert_time) ==
    /\ config.enabled
    /\ ~(current_time - last_alert_time < config.cooldown_period)

\* the channel action raises into _handle_alert: _send_email_alert and
\* _send_webhook_alert catch their own errors, LOG does nothing, a custom
\* callback that fails raises
Raises(config, fails) == config.action = "CUSTOM" /\ fails

HandleAlert_Rereads(level, delay, failing) ==
    LET current_time == IF routed = 0 THEN now ELSE now + delay
        last_alert_time == last_alert_times[level]
        configs == alert_configs[level]
        passing == {k \in DOMAIN configs : Passes(configs[k], current_time, last_alert_time)}
        raising == {k \in passing : Raises(configs[k], k \in failing)}
        executed == {k \in passing :
                       \A j \in passing \ raising :
                           j < k => Passes(configs[k], current_time, current_time)}
        returned == executed \ raising
    IN  /\ routed < MaxRouted
        /\ routed' = routed + 1
        /\ now' = current_time
        /\ last_alert_times' = IF returned # {}
                                THEN [last_alert_times EXCEPT ![level] = current_time]
                                ELSE last_alert_times
        /\ dispatched_at' = IF executed # {}
                             THEN [dispatched_at EXCEPT ![level] = current_time]
                             ELSE dispatched_at
        /\ handled' = [outcome |-> "returned",
                        level |-> level,
                        current_time |-> current_time,
                        last_alert_time |-> last_alert_time,
                        executed |-> executed,
                        failed |-> executed \cap failing,
                        raised |-> executed \cap raising]
        /\ UNCHANGED <<alert_configs, outsideRouter>>

HandleAlert_Aborts(level, delay, failing) ==
    LET current_time == IF routed = 0 THEN now ELSE now + delay
        last_alert_time == last_alert_times[level]
        configs == alert_configs[level]
        passing == {k \in DOMAIN configs : Passes(configs[k], current_time, last_alert_time)}
        raising == {k \in passing : Raises(configs[k], k \in failing)}
        executed == {k \in passing : \A j \in raising : k <= j}
        returned == executed \ raising
    IN  /\ routed < MaxRouted
        /\ routed' = routed + 1
        /\ now' = current_time
        /\ last_alert_times' = IF returned # {}
                                THEN [last_alert_times EXCEPT ![level] = current_time]
                                ELSE last_alert_times
        /\ dispatched_at' = IF executed # {}
                             THEN [dispatched_at EXCEPT ![level] = current_time]
                             ELSE dispatched_at
        /\ handled' = [outcome |-> IF raising # {} THEN "raised" ELSE "returned",
                        level |-> level,
                        current_time |-> current_time,
                        last_alert_time |-> last_alert_time,
                        executed |-> executed,
                        failed |-> executed \cap failing,
                        raised |-> executed \cap raising]
        /\ UNCHANGED <<alert_configs, outsideRouter>>

\* _handle_alert(stats, alert_level), called delay seconds after the alert
\* before it, under self._alert_lock: current_time and last_alert_time are
\* read, then every rule of the level that is enabled and past its cooldown
\* has its channel action executed; the level's timestamp is set after each
\* action that returned, and an action that raises is logged.  failing: the
\* rules whose channel is down
HandleAlert(level, delay, failing) ==
    LET current_time == IF routed = 0 THEN now ELSE now + delay
        last_alert_time == last_alert_times[level]
        configs == alert_configs[level]
        executed == {k \in DOMAIN configs : Passes(configs[k], current_time, last_alert_time)}
        raising == {k \in executed : Raises(configs[k], k \in failing)}
        returned == executed \ raising
    IN  /\ routed < MaxRouted
        /\ routed' = routed + 1
        /\ now' = current_time
        /\ last_alert_times' = IF returned # {}
                                THEN [last_alert_times EXCEPT ![level] = current_time]
                                ELSE last_alert_times
        /\ dispatched_at' = IF executed # {}
                             THEN [dispatched_at EXCEPT ![level] = current_time]
                             ELSE dispatched_at
        /\ handled' = [outcome |-> "returned",
                        level |-> level,
                        current_time |-> current_time,
                        last_alert_time |-> last_alert_time,
                        executed |-> executed,
                        failed |-> executed \cap failing,
                        raised |-> executed \cap raising]
        /\ UNCHANGED <<alert_configs, outsideRouter>>

RouterNext ==
    \E level \in AlertLevels, delay \in Delays :
        \E failing \in SUBSET DOMAIN alert_configs[level] :
            HandleAlert(level, delay, failing)

\* the alert manager of a process that does not use it: no rule configured
RouterIdle ==
    /\ RouterInit
    /\ alert_configs[MemoryAlertLevel_WARNING] = <<>>

\* the monitor of a process that does not use it: constructed with the defaults
MonitorIdle ==
    /\ MonitorInit
    /\ warning_threshold = 70 * Scale
    /\ critical_threshold = 85 * Scale

\* a scheduler constructed with one worker
SchedIdle ==
    /\ SchedInit
    /\ max_workers = 1

\* the pool of a process that only uses its scheduler: constructed and left alone
PoolIdle ==
    /\ PoolInit
    /\ max_size = 1
    /\ block
    /\ ~has_reset

(***************************************************************************)
(* MemoryManager                                                           *)
(***************************************************************************)
\* the callbacks MemoryLogger and MemoryAlertManager register with the monitor
\* when MemoryManager constructs them
LoggerCallback == 1

\* MemoryMonitor._stats_lock, MemoryAlertManager._alert_lock and
\* MemoryManager._pools_lock, each a threading.Lock
LockNames == {"stats_lock", "alert_lock", "pools_lock"}

\* the threads that raise alerts or ask the governor for statistics
Callers == 1..MaxCallers

\* the pool and the scheduler registered with the governor, in the order
\* get_memory_stats and log_pool_stats read them: self._object_pools first,
\* self._thread_pools second
Registered == <<"object_pool", "thread_pool">>

\* a thread that is in none of the calls
Outside == [pc |-> "idle"]
RouterCallback == 2

\* GarbageCollectionMonitor(), MemoryLogger(monitor) and, for the governor,
\* MemoryManager(config_manager): the snapshot thread and the logging thread
\* run, the collector hook is registered, and line 60 of gc_monitor.py has
\* bound the instance attribute _stop_snapshot_thread to False.  The
\* configuration holds the default thresholds (memory_manager.py lines 55-56).
GovernorInit ==
    /\ history = <<>>
    /\ samples_taken = 0
    /\ gc_stats = <<>>
    /\ total_gc_calls = 0
    /\ locks = [lock \in LockNames |-> 0]
    /\ inside = [t \in Callers |-> Outside]
    /\ config_manager = [warning |-> 70 * Scale, critical |-> 85 * Scale]
    /\ snapshot_thread = "test"
    /\ stop_snapshot_thread = FALSE
    /\ gc_hook = TRUE
    /\ log_thread = "test"
    /\ stop_logging = FALSE
    /\ governor = [pc |-> "idle"]
    /\ governor_call = [outcome |-> "none", calls |-> 0]

\* the monitor of a governor: constructed with the defaults, the two
\* callbacks registered and the sampler started (memory_manager.py line 105)
MonitorStarted ==
    /\ warning_threshold = 70 * Scale
    /\ critical_threshold = 85 * Scale
    /\ classified = [percent |-> 0, level |-> MemoryAlertLevel_NORMAL]
    /\ threshold_call = [outcome |-> "none", seq |-> 0]
    /\ stop_monitoring = FALSE
    /\ monitor_thread = 1
    /\ loops = <<NewLoop>>
    /\ stopper = [pc |-> "idle"]
    /\ sampler_call = [op |-> "start", outcome |-> "started", seq |-> 1]
    /\ alert_callbacks = <<LoggerCallback, RouterCallback>>
    /\ alert_count = 0

\* _snapshot_loop: while not self._stop_snapshot_thread
SnapshotLoopTest ==
    /\ snapshot_thread = "test"
    /\ snapshot_thread' = IF stop_snapshot_thread THEN "dead" ELSE "take"
    /\ UNCHANGED <<stop_snapshot_thread, gc_hook, log_thread, stop_logging, governor,
                   governor_call, gcVars, monitorVars, samplerVars, outsideGovernor>>

\* _snapshot_loop: self._take_snapshot(), then the sleep
SnapshotLoopTake(total_size) ==
    /\ snapshot_thread = "take"
    /\ snapshot_thread' = "test"
    /\ snapshots' = IF Len(snapshots) + 1 > MaxSnapshots
                    THEN Tail(Append(snapshots, total_size))
                    ELSE Append(snapshots, total_size)
    /\ UNCHANGED <<leak_call, stop_snapshot_thread, gc_hook, log_thread, stop_logging,
                   governor, governor_call, monitorVars, samplerVars, outsideGovernor>>

\* _log_loop: while not self._stop_logging
LogLoopTest ==
    /\ log_thread = "test"
    /\ log_thread' = IF stop_logging THEN "dead" ELSE "log"
    /\ UNCHANGED <<snapshot_thread, stop_snapshot_thread, gc_hook, stop_logging, governor,
                   governor_call, gcVars, monitorVars, samplerVars, outsideGovernor>>

\* _log_loop: self._log_memory_stats(), then the sleep
LogLoopWrite ==
    /\ log_thread = "log"
    /\ log_thread' = "test"
    /\ UNCHANGED <<snapshot_thread, stop_snapshot_thread, gc_hook, stop_logging, governor,
                   governor_call, gcVars, monitorVars, samplerVars, outsideGovernor>>

\* MemoryManager.shutdown begins: self._memory_monitor.stop() takes
\* self._monitor_lock and, when the loop thread is alive, sets the flag and
\* starts to join it
GovernorStopSampler ==
    /\ governor.pc = "idle"
    /\ governor_call.calls < MaxShutdowns
    /\ stopper.pc = "idle"
    /\ IF IsAlive
       THEN /\ stop_monitoring' = TRUE
            /\ stopper' = [pc |-> "join"]
            /\ governor' = [pc |-> "join_sampler"]
       ELSE /\ governor' = [pc |-> "stop_logger"]
            /\ UNCHANGED <<stop_monitoring, stopper>>
    /\ UNCHANGED <<monitor_thread, loops, sampler_call, alert_callbacks, alert_count,
                   monitorVars, snapshot_thread, stop_snapshot_thread, gc_hook, log_thread,
                   stop_logging, governor_call, gcVars, outsideGovernor>>

\* self._memory_monitor.stop(): join(timeout=2.0) returns and the lock is released
GovernorJoinSampler(timed_out) ==
    /\ governor.pc = "join_sampler"
    /\ timed_out = IsAlive
    /\ stopper' = [pc |-> "idle"]
    /\ sampler_call' = Returned("stop", IF timed_out THEN "timed_out" ELSE "stopped")
    /\ governor' = [pc |-> "stop_logger"]
    /\ UNCHANGED <<stop_monitoring, monitor_thread, loops, alert_callbacks, alert_count,
                   monitorVars, snapshot_thread, stop_snapshot_thread, gc_hook, log_thread,
                   stop_logging, governor_call, gcVars, outsideGovernor>>

\* self._memory_logger.stop(): when the logging thread is alive the flag is
\* set and the join begins
GovernorStopLogger ==
    /\ governor.pc = "stop_logger"
    /\ IF log_thread # "dead"
       THEN /\ stop_logging' = TRUE
            /\ governor' = [pc |-> "join_logger"]
       ELSE /\ governor' = [pc |-> "inspector"]
            /\ UNCHANGED stop_logging
    /\ UNCHANGED <<snapshot_thread, stop_snapshot_thread, gc_hook, log_thread, governor_call,
                   gcVars, monitorVars, samplerVars, outsideGovernor>>

\* self._memory_logger.stop(): join(timeout=2.0) returns
GovernorJoinLogger(timed_out) ==
    /\ governor.pc = "join_logger"
    /\ timed_out = (log_thread # "dead")
    /\ governor' = [pc |-> "inspector"]
    /\ UNCHANGED <<snapshot_thread, stop_snapshot_thread, gc_hook, log_thread, stop_logging,
                   governor_call, gcVars, monitorVars, samplerVars, outsideGovernor>>

\* self._gc_monitor.shutdown(): its first statement self._stop_snapshot_thread()
\* finds the instance attribute, a bool, before the method of the same name
\* (gc_monitor.py lines 60, 101, 106) and calling it raises TypeError, which
\* leaves shutdown of the inspector and of the governor; the statements
\* behind it (unregister the hook, stop tracemalloc) are not reached
GovernorShutdownInspector ==
    /\ governor.pc = "inspector"
    /\ stop_snapshot_thread \in BOOLEAN
    /\ governor' = [pc |-> "idle"]
    /\ governor_call' = [outcome |-> "TypeError", calls |-> governor_call.calls + 1]
    /\ UNCHANGED <<snapshot_thread, stop_snapshot_thread, gc_hook, log_thread, stop_logging,
                   gcVars, monitorVars, samplerVars, outsideGovernor>>

GovernorNext ==
    \/ SnapshotLoopTest
    \/ \E total_size \in {100} : SnapshotLoopTake(total_size)
    \/ LogLoopTest
    \/ LogLoopWrite
    \/ LoopNext
    \/ \E l \in DOMAIN loops, raises \in BOOLEAN : LoopCallback(l, raises)
    \/ GovernorStopSampler
    \/ \E timed_out \in BOOLEAN : GovernorJoinSampler(timed_out)
    \/ GovernorStopLogger
    \/ \E timed_out \in BOOLEAN : GovernorJoinLogger(timed_out)
    \/ GovernorShutdownInspector

\* MemoryManager.set_memory_thresholds(warning_threshold, critical_threshold);
\* has_w and has_c: the argument is not None.  The call of the monitor's
\* set_thresholds runs first, statement by statement as in SetThresholds; when
\* it raises, the exception leaves set_memory_thresholds before the
\* configuration is touched, otherwise each argument that is not None is
\* stored under its key by ConfigurationManager.set.
SetMemoryThresholds(has_w, w, has_c, c) ==
    LET w_raises == has_w /\ ~InRange(w)
        w_after == IF has_w /\ InRange(w) THEN w ELSE warning_threshold
        c_raises == ~w_raises /\ has_c /\ ~InRange(c)
        c_after == IF ~w_raises /\ has_c /\ InRange(c) THEN c ELSE critical_threshold
        order_raises == ~w_raises /\ ~c_raises /\ c_after <= w_after
        raises == w_raises \/ c_raises \/ order_raises
    IN  /\ warning_threshold' = w_after
        /\ critical_threshold' = c_after
        /\ threshold_call' = [outcome |-> IF raises THEN "ValueError" ELSE "ok",
                              seq |-> 1 - threshold_call.seq]
        /\ config_manager' =
              IF raises THEN config_manager
              ELSE [warning |-> IF has_w THEN w ELSE config_manager.warning,
                    critical |-> IF has_c THEN c ELSE config_manager.critical]
        /\ UNCHANGED <<classified, samplerVars, poolVars, schedVars, gcVars, routerVars,
                       governorVars, lockVars, historyVars, reporterVars>>

\* a governor whose thresholds are set through it
ConfigNext ==
    \E has_w, has_c \in BOOLEAN, w, c \in ThresholdArgs :
       SetMemoryThresholds(has_w, w, has_c, c)

\* self._max_history_size of the monitor
max_history_size == 100

\* the number of collections _gc_callback keeps in self._gc_stats
GcStatsLimit == 100

\* the sizes the snapshots of a process with a short history have
HistorySizes == {100, 110}

AddToHistory_PopNewest ==
    /\ samples_taken < MaxSamples
    /\ samples_taken' = samples_taken + 1
    /\ history' = IF Len(history) + 1 > max_history_size
                  THEN history
                  ELSE Append(history, samples_taken + 1)
    /\ UNCHANGED <<gc_stats, total_gc_calls, poolVars, schedVars, monitorVars, samplerVars,
                   gcVars, routerVars, governorVars, configVars, lockVars, reporterVars>>

\* _monitor_loop takes a sample and calls _add_to_history(stats): the sample
\* is appended to self._history and the oldest is dropped when there are more
\* than self._max_history_size.  The loop thread is the only caller.
AddToHistory ==
    /\ samples_taken < MaxSamples
    /\ samples_taken' = samples_taken + 1
    /\ history' = IF Len(history) + 1 > max_history_size
                  THEN Tail(Append(history, samples_taken + 1))
                  ELSE Append(history, samples_taken + 1)
    /\ UNCHANGED <<gc_stats, total_gc_calls, poolVars, schedVars, monitorVars, samplerVars,
                   gcVars, routerVars, governorVars, configVars, lockVars, reporterVars>>

\* _gc_callback('stop', info): under self._gc_stats_lock the collection is
\* appended to self._gc_stats and the oldest is dropped when there are more
\* than 100; then total_gc_calls is counted under self._stats_lock
GcCallback ==
    /\ total_gc_calls < MaxGcCalls
    /\ gc_stats' = IF Len(gc_stats) + 1 > GcStatsLimit
                   THEN Tail(Append(gc_stats, total_gc_calls + 1))
                   ELSE Append(gc_stats, total_gc_calls + 1)
    /\ total_gc_calls' = total_gc_calls + 1
    /\ UNCHANGED <<history, samples_taken, poolVars, schedVars, monitorVars,
                   samplerVars, gcVars, routerVars, governorVars, configVars, lockVars, reporterVars>>

\* a process whose sampler ticks, whose collector runs and whose inspector
\* takes snapshots
HistoryNext ==
    \/ AddToHistory
    \/ GcCallback
    \/ \E total_size \in HistorySizes : TakeSnapshot(total_size)

\* the locks a thread holds
HeldBy(t) == {lock \in LockNames : locks[lock] = t}

\* _trigger_alert(stats, alert_level): with self._stats_lock
TriggerAlertLock(t, level) ==
    /\ inside[t].pc = "idle"
    /\ alert_count < MaxAlerts
    /\ locks.stats_lock = 0
    /\ locks' = [locks EXCEPT !.stats_lock = t]
    /\ inside' = [inside EXCEPT ![t] = [pc |-> "count", level |-> level]]
    /\ UNCHANGED <<poolVars, schedVars, monitorVars, samplerVars, gcVars, routerVars,
                   governorVars, configVars, historyVars, reporterVars>>

\* _trigger_alert: self._stats['alert_count'] += 1 and the end of the with
\* block; the loop over self._alert_callbacks follows
TriggerAlertCount(t) ==
    /\ inside[t].pc = "count"
    /\ alert_count' = alert_count + 1
    /\ locks' = [locks EXCEPT !.stats_lock = 0]
    /\ inside' = [inside EXCEPT ![t].pc = "callbacks"]
    /\ UNCHANGED <<stop_monitoring, monitor_thread, loops, stopper, sampler_call,
                   alert_callbacks, poolVars, schedVars, monitorVars, gcVars, routerVars,
                   governorVars, configVars, historyVars, reporterVars>>

\* _trigger_alert calls the alert manager's callback, _handle_alert(stats,
\* alert_level): with self._alert_lock, current_time and last_alert_time are
\* read
HandleAlertLock(t) ==
    /\ inside[t].pc = "callbacks"
    /\ locks.alert_lock = 0
    /\ locks' = [locks EXCEPT !.alert_lock = t]
    /\ inside' = [inside EXCEPT ![t] = [pc |-> "rules",
                                        level |-> inside[t].level,
                                        current_time |-> now,
                                        last_alert_time |-> last_alert_times[inside[t].level],
                                        index |-> 0]]
    /\ UNCHANGED <<poolVars, schedVars, monitorVars, samplerVars, gcVars, routerVars,
                   governorVars, configVars, historyVars, reporterVars>>

\* _handle_alert: the next rule of the level; a rule that is disabled or
\* inside its cooldown is skipped, for any other the channel action is called
HandleAlertRule(t) ==
    LET configs == alert_configs[inside[t].level]
        k == inside[t].index + 1
    IN  /\ inside[t].pc = "rules"
        /\ k <= Len(configs)
        /\ inside' = [inside EXCEPT
              ![t].index = k,
              ![t].pc = IF Passes(configs[k], inside[t].current_time,
                                  inside[t].last_alert_time)
                        THEN "action" ELSE "rules"]
        /\ UNCHANGED <<locks, poolVars, schedVars, monitorVars, samplerVars, gcVars,
                       routerVars, governorVars, configVars, historyVars, reporterVars>>

\* the channel action of the rule ends: the level's timestamp is set when it
\* returned, the error is logged when it raised
HandleAlertActionEnds(t, fails) ==
    LET configs == alert_configs[inside[t].level]
    IN  /\ inside[t].pc = "action"
        /\ last_alert_times' =
              IF Raises(configs[inside[t].index], fails) THEN last_alert_times
              ELSE [last_alert_times EXCEPT ![inside[t].level] = inside[t].current_time]
        /\ inside' = [inside EXCEPT ![t].pc = "rules"]
        /\ UNCHANGED <<locks, alert_configs, now, dispatched_at, handled, routed, poolVars,
                       schedVars, monitorVars, samplerVars, gcVars, governorVars,
                       configVars, historyVars, reporterVars>>

\* _handle_alert: the loop over the rules is over, the with block ends and
\* the callback returns to _trigger_alert, which returns
HandleAlertUnlock(t) ==
    /\ inside[t].pc = "rules"
    /\ inside[t].index = Len(alert_configs[inside[t].level])
    /\ locks' = [locks EXCEPT !.alert_lock = 0]
    /\ inside' = [inside EXCEPT ![t] = Outside]
    /\ UNCHANGED <<poolVars, schedVars, monitorVars, samplerVars, gcVars, routerVars,
                   governorVars, configVars, historyVars, reporterVars>>

\* get_memory_stats() (op "get_memory_stats") after it has read the
\* components' statistics and updated its own, or log_pool_stats() (op
\* "log_pool_stats"): with self._pools_lock
PoolStatsLock(t, op) ==
    /\ inside[t].pc = "idle"
    /\ locks.pools_lock = 0
    /\ locks' = [locks EXCEPT !.pools_lock = t]
    /\ inside' = [inside EXCEPT ![t] = [pc |-> "pools", op |-> op, index |-> 0]]
    /\ UNCHANGED <<poolVars, schedVars, monitorVars, samplerVars, gcVars, routerVars,
                   governorVars, configVars, historyVars, reporterVars>>

\* the loop over the registered pools: pool.size() and pool.in_use_count()
\* of an object pool or pool.get_stats() of a scheduler is called, and in
\* log_pool_stats the logger with the result
PoolStatsRead(t) ==
    /\ inside[t].pc = "pools"
    /\ inside[t].index < Len(Registered)
    /\ inside' = [inside EXCEPT ![t].pc = "reading", ![t].index = inside[t].index + 1]
    /\ UNCHANGED <<locks, poolVars, schedVars, monitorVars, samplerVars, gcVars,
                   routerVars, governorVars, configVars, historyVars, reporterVars>>

\* the call into the pool or the scheduler returns.  In log_pool_stats the
\* with block of the object pools ends behind their loop (line 176) and the
\* with block of the schedulers is entered next.
PoolStatsReadReturns(t) ==
    LET relocks == inside[t].op = "log_pool_stats" /\ inside[t].index = 1
    IN  /\ inside[t].pc = "reading"
        /\ locks' = IF relocks THEN [locks EXCEPT !.pools_lock = 0] ELSE locks
        /\ inside' = [inside EXCEPT ![t].pc = IF relocks THEN "relock" ELSE "pools"]
        /\ UNCHANGED <<poolVars, schedVars, monitorVars, samplerVars, gcVars, routerVars,
                       governorVars, configVars, historyVars, reporterVars>>

\* log_pool_stats: with self._pools_lock, the second time (line 179)
PoolStatsRelock(t) ==
    /\ inside[t].pc = "relock"
    /\ locks.pools_lock = 0
    /\ locks' = [locks EXCEPT !.pools_lock = t]
    /\ inside' = [inside EXCEPT ![t].pc = "pools"]
    /\ UNCHANGED <<poolVars, schedVars, monitorVars, samplerVars, gcVars, routerVars,
                   governorVars, configVars, historyVars, reporterVars>>

\* the loops are over: the with block ends and the call returns
PoolStatsUnlock(t) ==
    /\ inside[t].pc = "pools"
    /\ inside[t].index = Len(Registered)
    /\ locks' = [locks EXCEPT !.pools_lock = 0]
    /\ inside' = [inside EXCEPT ![t] = Outside]
    /\ UNCHANGED <<poolVars, schedVars, monitorVars, samplerVars, gcVars, routerVars,
                   governorVars, configVars, historyVars, reporterVars>>

LockNext ==
    \/ \E t \in Callers, level \in AlertLevels : TriggerAlertLock(t, level)
    \/ \E t \in Callers : TriggerAlertCount(t)
    \/ \E t \in Callers : HandleAlertLock(t)
    \/ \E t \in Callers : HandleAlertRule(t)
    \/ \E t \in Callers, fails \in BOOLEAN : HandleAlertActionEnds(t, fails)
    \/ \E t \in Callers : HandleAlertUnlock(t)
    \/ \E t \in Callers, op \in {"get_memory_stats", "log_pool_stats"} : PoolStatsLock(t, op)
    \/ \E t \in Callers : PoolStatsRead(t)
    \/ \E t \in Callers : PoolStatsReadReturns(t)
    \/ \E t \in Callers : PoolStatsRelock(t)
    \/ \E t \in Callers : PoolStatsUnlock(t)

\* the logger, the inspector's threads and the governor of a process that
\* leaves them alone
GovernorIdle == GovernorInit

\* the memory components of a process that does not use them
MemoryIdle == MonitorIdle /\ GcIdle /\ RouterIdle /\ GovernorIdle

\* what a process that works with its memory monitor leaves idle
OutsideMonitorIdle == PoolIdle /\ SchedIdle /\ GcIdle /\ RouterIdle /\ GovernorIdle

\* what a process that works with its inspector leaves idle
OutsideGcIdle == PoolIdle /\ SchedIdle /\ MonitorIdle /\ RouterIdle /\ GovernorIdle

\* a process that works with its pool
PoolStart == PoolInit /\ SchedIdle /\ MemoryIdle

\* a process that works with its scheduler
SchedStart == SchedInit /\ PoolIdle /\ MemoryIdle

\* a process that works with a single-worker scheduler
OrderStart == SchedIdle /\ PoolIdle /\ MemoryIdle

PoolSpec == PoolStart /\ [][PoolNext]_vars

\* a scheduler fed by concurrent client threads
SchedSpec == SchedStart /\ [][SchedNext]_vars

\* a single-worker scheduler fed by one client thread
OrderSpec == OrderStart /\ [][OrderNext]_vars

\* a process that resizes a scheduler constructed with one worker
ResizeStart == SchedIdle /\ PoolIdle /\ MemoryIdle

\* a process that resizes its scheduler, its threads scheduled fairly
FairStart == SchedIdle /\ PoolIdle /\ MemoryIdle

\* a process that purges and shuts down a scheduler constructed with one worker
CloseStart == SchedIdle /\ PoolIdle /\ MemoryIdle

ResizeSpec == ResizeStart /\ [][ResizeNext]_vars

\* a process that shrinks a scheduler constructed with MaxWorkers workers
ShrinkStart ==
    /\ SchedInit
    /\ max_workers = MaxWorkers
    /\ PoolIdle
    /\ MemoryIdle

ShrinkSpec == ShrinkStart /\ [][ShrinkNext]_vars

\* every dispatcher thread, every worker thread and the thread inside resize
\* keeps running
FairSpec ==
    /\ FairStart
    /\ [][FairNext]_vars
    /\ WF_vars(WorkNext)
    /\ WF_vars(ResizeInstall)

CloseSpec == CloseStart /\ [][CloseNext]_vars

\* a process that works with its memory monitor
MonitorStart == MonitorInit /\ OutsideMonitorIdle

MonitorSpec == MonitorStart /\ [][MonitorNext]_vars

ReporterStart == SchedInit /\ PoolIdle /\ MemoryIdle

ReporterSpec == ReporterStart /\ [][ReporterNext]_vars

\* a governor that has constructed its monitor with the thresholds of the
\* configuration (memory_manager.py lines 64-70)
ConfigStart ==
    /\ MonitorIdle
    /\ OutsideMonitorIdle
    /\ warning_threshold = config_manager.warning
    /\ critical_threshold = config_manager.critical

HistoryStart == MemoryIdle /\ PoolIdle /\ SchedIdle

HistorySpec == HistoryStart /\ [][HistoryNext]_vars

ConfigSpec == ConfigStart /\ [][ConfigNext]_vars

\* a process that starts and stops the sampler of a monitor constructed with
\* the defaults
SamplerStart == MonitorIdle /\ OutsideMonitorIdle

SamplerSpec == SamplerStart /\ [][SamplerNext]_vars

\* a process that registers alert callbacks with a monitor constructed with the
\* defaults and starts its sampler
AlertStart == MonitorIdle /\ OutsideMonitorIdle

AlertSpec == AlertStart /\ [][AlertNext]_vars

\* a process that takes snapshots and looks for leaks
GcStart == GcInit /\ OutsideGcIdle

GcSpec == GcStart /\ [][GcNext]_vars

\* what a process that works with its alert manager leaves idle
OutsideRouterIdle == PoolIdle /\ SchedIdle /\ MonitorIdle /\ GcIdle /\ GovernorIdle

\* a process whose sampler raises alerts that the alert manager handles
RouterStart == RouterInit /\ OutsideRouterIdle

RouterSpec == RouterStart /\ [][RouterNext]_vars

\* a governor whose alert manager has enabled rules with the default cooldown
\* for the WARNING level, a pool and a scheduler registered
LockStart ==
    /\ RouterInit
    /\ \A k \in DOMAIN alert_configs[MemoryAlertLevel_WARNING] :
          /\ alert_configs[MemoryAlertLevel_WARNING][k].enabled
          /\ alert_configs[MemoryAlertLevel_WARNING][k].cooldown_period = 300
    /\ OutsideRouterIdle

LockSpec == LockStart /\ [][LockNext]_vars

\* a process that constructs a governor and shuts it down
GovernorStart ==
    /\ MonitorStarted
    /\ GovernorInit
    /\ GcInit
    /\ RouterIdle
    /\ PoolIdle
    /\ SchedIdle

GovernorSpec == GovernorStart /\ [][GovernorNext]_vars

(***************************************************************************)
(* Properties of ObjectPool                                                *)
(***************************************************************************)
\* the step just taken completed or advanced a call (every action writes last)
Stepped == last' # last

\* C1: for a pool with max_size = N, blocking or not, every reachable state has
\* 0 <= in_use_count <= N and idle_count + in_use_count <= N.
C1_PoolBounded ==
    /\ 0 <= in_use_count
    /\ in_use_count <= max_size
    /\ Len(pool) + in_use_count <= max_size

\* the pool is at its limit while a thread is blocked or a burst object is out
C1_Witness ==
    /\ in_use_count = max_size
    /\ (\E t \in Threads : pc[t] = "waiting") \/ held["burst"] > 0

\* C2: on a non-blocking pool, the release of an object that acquire returned
\* as a burst instance leaves in_use_count and the idle list as they were.
C2_BurstReleaseUntracked ==
    [][( /\ Stepped
         /\ last'.op = "release"
         /\ ~block
         /\ held'["burst"] < held["burst"] )
         => (in_use_count' = in_use_count /\ pool' = pool)]_vars

\* C3: on a blocking pool with an empty idle list and in_use_count = max_size,
\* acquire blocks instead of returning; the blocked thread is woken only by a
\* release; when its timeout has elapsed it fails with the pool-timeout error;
\* none of these steps changes the idle list or in_use_count.
C3_TimeoutFails ==
    [][\A t \in Threads :
         /\ (pc[t] = "idle" /\ pc'[t] = "waiting")
               => ( /\ block /\ pool = <<>> /\ in_use_count = max_size
                    /\ pool' = pool /\ in_use_count' = in_use_count )
         /\ (pc[t] = "waiting" /\ pc'[t] # "waiting")
               => \/ pc'[t] = "notified" /\ last'.op = "release" /\ last'.thread # t
                  \/ pc'[t] = "timedout" /\ pool' = pool /\ in_use_count' = in_use_count
         /\ (pc[t] = "timedout" /\ pc'[t] # "timedout")
               => ( /\ pc'[t] = "idle"
                    /\ last'.thread = t /\ last'.outcome = "PoolTimeout"
                    /\ held' = held
                    /\ pool' = pool /\ in_use_count' = in_use_count )]_vars

\* a blocked acquire has just failed with the timeout error while the pool is full
C3_Witness ==
    /\ last.outcome = "PoolTimeout"
    /\ block
    /\ pool = <<>>
    /\ in_use_count = max_size

\* C4: when the factory raises inside acquire, on the normal creation path or
\* on the burst path, the call fails and the idle list, in_use_count, the
\* checked-out objects and the wait queue are what they were before.
C4_FactoryFailureFrame ==
    [][(Stepped /\ last'.outcome = "FactoryError")
         => ( /\ pool' = pool
              /\ in_use_count' = in_use_count
              /\ held' = held
              /\ waiters' = waiters
              /\ pc'[last'.thread] = "idle"
              /\ \A t \in Threads : t # last'.thread => pc'[t] = pc[t] )]_vars

\* the factory has just failed on the burst path of a non-blocking pool
C4_Witness ==
    /\ last.outcome = "FactoryError"
    /\ ~block
    /\ in_use_count = max_size

\* C5: when the reset hook raises during release, the object is not added to
\* the idle list, in_use_count goes down by one if it was positive, the oldest
\* waiter is notified, and release returns normally.
C5_ResetFailure ==
    [][(Stepped /\ last'.outcome = "reset_failed")
         => ( /\ has_reset
              /\ pool' = pool
              /\ in_use_count' = (IF in_use_count > 0 THEN in_use_count - 1 ELSE 0)
              /\ pc'[last'.thread] = "idle"
              /\ waiters # <<>> =>
                    ( /\ waiters' = Tail(waiters)
                      /\ pc[Head(waiters)] = "waiting"
                            => pc'[Head(waiters)] = "notified" ) )]_vars

\* a failed reset has just woken a blocked thread
C5_Witness ==
    /\ last.outcome = "reset_failed"
    /\ \E t \in Threads : pc[t] = "notified"

\* C6: release called while in_use_count = 0 leaves the idle list and
\* in_use_count unchanged, and in_use_count is never negative.
C6_ReleaseAtZero ==
    /\ [](in_use_count >= 0)
    /\ [][(Stepped /\ last'.op = "release" /\ in_use_count = 0)
            => (pool' = pool /\ in_use_count' = 0)]_vars

\* an object has just been discarded by release
C6_Witness ==
    /\ last.op = "release"
    /\ last.outcome = "discarded"
    /\ in_use_count = 0

\* C7: on a blocking pool, when a release returns an object to the idle list
\* while a thread is blocked in acquire and its timeout has not elapsed, the
\* object is pushed and one such blocked thread is woken.
C7_ReleaseWakesWaiter ==
    [][( /\ Stepped
         /\ block
         /\ last'.op = "release"
         /\ last'.outcome = "returned"
         /\ \E t \in Threads : pc[t] = "waiting" )
         => ( /\ Len(pool') = Len(pool) + 1
              /\ \E t \in Threads : pc[t] = "waiting" /\ pc'[t] = "notified" )]_vars

\* C30: on a blocking pool, for any interleaving of acquire, release and
\* clear, the number of objects checked out to callers (returned by acquire,
\* not released yet) never exceeds max_size.
C30_CheckedOutBounded ==
    block => HeldTotal <= max_size

\* the number of acquire calls that could return at once: each takes an idle
\* object while there is one and creates one while in_use_count, which both
\* raise, is below max_size
Capacity ==
    IF Len(pool) > max_size - in_use_count THEN Len(pool) ELSE max_size - in_use_count

\* the waiters that have been notified and have not yet run again
Notified == {t \in Threads : pc[t] = "notified"}

\* C38: no lost wake-up: while a thread is blocked in a blocking acquire, no
\* capacity of the pool (idle object or slot below max_size) is left without
\* a notified waiter on its way to take it, for any interleaving of acquire,
\* release and clear; a blocked thread never has to sit out its timeout
\* beside capacity
C38_NoLostWakeup ==
    (\E t \in Threads : pc[t] = "waiting") => Capacity <= Cardinality(Notified)

(***************************************************************************)
(* Properties of ThreadPool                                                *)
(***************************************************************************)
\* the step is a dequeue by dispatcher thread d
Dequeues(d) == dispatchers[d].pc = "get" /\ dispatchers'[d].pc = "count"

\* the tasks whose payload a worker has started
Started == {i \in TaskIds : tasks[i].stage \in {"running", "ran", "done"}}

\* the order of execution the scenario is to produce
GateOrder == <<CRITICAL, HIGH, MEDIUM, LOW, LOW>>

\* the scenario: GatePlan submitted in that order, all of it queued when the
\* dispatcher dequeued for the first time, one worker
GateScenario ==
    /\ gate
    /\ max_workers = 1
    /\ Submitted = GatePlan

\* C8: whenever the dispatcher dequeues a task, no task in the queue has a
\* higher priority; with a single worker and the tasks LOW, HIGH, LOW,
\* CRITICAL, MEDIUM all queued before the first dequeue, the payloads start in
\* the order CRITICAL, HIGH, MEDIUM, LOW, LOW: after k starts the started tasks
\* carry exactly the first k priorities of that order.
C8_PriorityOrder ==
    /\ [][\A d \in DOMAIN dispatchers : Dequeues(d) =>
            /\ dispatchers'[d].task \in Queued
            /\ \A j \in Queued :
                  tasks[j].priority <= tasks[dispatchers'[d].task].priority]_vars
    /\ [](GateScenario =>
            \A p \in Priorities :
               Cardinality({i \in Started : tasks[i].priority = p})
                  = Cardinality({n \in 1..Cardinality(Started) : GateOrder[n] = p}))

\* the scenario has run to its end
C8_Witness ==
    /\ GateScenario
    /\ \A i \in TaskIds : tasks[i].stage = "done"

\* C9: whenever the dispatcher dequeues a task, every other queued task of the
\* same priority was submitted later (FIFO among equal priorities).
C9_FifoAmongEqual ==
    [][\A d \in DOMAIN dispatchers : Dequeues(d) =>
         \A j \in Queued :
            ( /\ j # dispatchers'[d].task
              /\ tasks[j].priority = tasks[dispatchers'[d].task].priority )
               => dispatchers'[d].task < j]_vars

\* every task that was submitted has finished executing
AllExecuted ==
    /\ tasks # <<>>
    /\ \A i \in TaskIds : tasks[i].stage = "done"

\* C10: once every submitted task has finished executing, whether its payload
\* returned or raised, active_tasks is 0 and completed_tasks + failed_tasks is
\* the number of tasks executed.
C10_CountersSettle ==
    AllExecuted =>
       /\ stats.active_tasks = 0
       /\ stats.completed_tasks + stats.failed_tasks = Len(tasks)
       /\ stats.completed_tasks = Cardinality({i \in TaskIds : tasks[i].future = "value"})
       /\ stats.failed_tasks = Cardinality({i \in TaskIds : tasks[i].future = "error"})

\* all tasks have run, one payload returned and one raised
C10_Witness ==
    /\ AllExecuted
    /\ stats.completed_tasks > 0
    /\ stats.failed_tasks > 0

\* the payload of task i has been executed and its result handle is resolved
Executed(i) ==
    /\ i \in TaskIds
    /\ tasks[i].stage = "done"
    /\ tasks[i].future # "pending"

\* C11: under fair scheduling of the dispatchers and the workers, in runs of
\* submit, resize and task execution without shutdown and purge_queue, every
\* task whose submit call returned its result handle is eventually executed
\* and its handle resolved (unless shutdown is called first).
C11_EveryTaskExecuted ==
    \A i \in 1..MaxFairJobs :
        (i \in TaskIds /\ tasks[i].returned) ~> (Executed(i) \/ shutdown)

\* how far task i has come: a stage never comes before the stages passed
Rank(stage) ==
    CASE stage = "created" -> 0
      [] stage = "queued" -> 1
      [] stage = "taken" -> 2
      [] stage = "handed" -> 3
      [] stage = "running" -> 4
      [] stage = "ran" -> 5
      [] OTHER -> 6

\* the places that hold task i: entries of the priority queue, dispatcher
\* threads, entries of the executors' work queues, workers
Places(i) ==
    Cardinality({n \in 1..Len(task_queue) : task_queue[n] = i})
    + Cardinality({d \in DOMAIN dispatchers : dispatchers[d].task = i})
    + Cardinality({en \in (DOMAIN executors) \X TaskIds :
                      /\ en[2] <= Len(executors[en[1]].work_queue)
                      /\ executors[en[1]].work_queue[en[2]] = i})
    + (IF i \in Running THEN 1 ELSE 0)

\* C12: for any interleaving of submit, dispatch, resize and execution, a task
\* is held by at most one of queue, dispatcher threads, executors and workers
\* (a dequeue takes it from the queue to exactly one dispatcher), a task never
\* goes back to a stage it has passed, so its payload starts at most once, and
\* a result handle that is resolved keeps the value or error it holds.
C12_AtMostOnce ==
    /\ [](\A i \in TaskIds : Places(i) <= 1)
    /\ [][\A i \in TaskIds :
            /\ Rank(tasks'[i].stage) >= Rank(tasks[i].stage)
            /\ (tasks'[i].stage = "running" /\ tasks[i].stage # "running")
                  => tasks[i].stage = "handed"
            /\ tasks[i].future # "pending" => tasks'[i].future = tasks[i].future
            /\ \A d \in DOMAIN dispatchers : Dequeues(d) /\ dispatchers'[d].task = i
                  => (i \in Queued /\ Places(i)' = 1)]_vars

\* two dispatcher threads have run side by side and the tasks they handed to
\* two executors have been executed and resolved
C12_Witness ==
    /\ Len(dispatchers) = 2
    /\ \E i, j \in TaskIds :
          /\ Executed(i) /\ Executed(j)
          /\ tasks[i].executor = 1 /\ tasks[j].executor = 2
    /\ \E d \in DOMAIN dispatchers : dispatchers[d].pc = "get"

\* C13: once shutdown has set the closed flag, no step of a submit call puts a
\* task into the priority queue or changes total_tasks, also when the submit
\* call runs concurrently with shutdown.
C13_NoSubmitAfterClose ==
    [][shutdown =>
         /\ \A i \in TaskIds : i \in Queued' => i \in Queued
         /\ stats'.total_tasks = stats.total_tasks]_vars

\* shutdown(wait=True) has returned and its join of the dispatcher thread did
\* not time out
ShutdownWaited ==
    /\ closer.pc = "returned"
    /\ closer.wait
    /\ ~closer.timed_out

\* C14: when shutdown(wait=True) has returned before its timeout expired, every
\* task accepted before the shutdown has been executed and its result handle
\* is resolved, whether it was with a worker or still in the priority queue
\* when shutdown was called.
C14_ShutdownDrains ==
    ShutdownWaited => \A i \in closer.accepted : Executed(i)

\* the step ends the hand-off of the task dispatcher thread d holds
HandsOff(d) == dispatchers[d].pc = "hand" /\ dispatchers'[d].pc # "hand"

\* the step is a resize call that fails
ResizeFails ==
    /\ refusal' # refusal
    /\ refusal' \in {"ResizeValueError", "ResizeClosed"}

\* C15: under fair scheduling, every task that was handed to a worker pool,
\* also one that resize has replaced since, is eventually executed and its
\* handle resolved; resize leaves the tasks and the work queues of the
\* executors alone and installs an executor with n workers; a task handed off
\* while the scheduler is open and no resize is under way goes to the executor
\* installed last, and a payload is started only by the executor its task was
\* handed to; resize with n <= 0 or on a closed scheduler fails and changes
\* nothing.
C15_ResizeKeepsTasks ==
    /\ \A i \in 1..MaxFairJobs :
          (i \in TaskIds /\ tasks[i].executor # 0) ~> Executed(i)
    /\ [][
           /\ resizer' # resizer =>
               /\ tasks' = tasks
               /\ \A e \in DOMAIN executors :
                     executors'[e].work_queue = executors[e].work_queue
               /\ Len(executors') > Len(executors) =>
                     /\ max_workers' = resizer.n
                     /\ executors'[Len(executors')] = NewExecutor(resizer.n)
           /\ \A d \in DOMAIN dispatchers :
                 (HandsOff(d) /\ resizer.pc = "idle" /\ ~shutdown) =>
                    /\ tasks'[dispatchers[d].task].stage = "handed"
                    /\ tasks'[dispatchers[d].task].executor = Len(executors)
                    /\ ~executors[Len(executors)].shut
           /\ \A i \in TaskIds :
                 (tasks'[i].stage = "running" /\ tasks[i].stage # "running") =>
                    /\ tasks[i].executor # 0
                    /\ tasks'[i].executor = tasks[i].executor
                    /\ executors[tasks[i].executor].work_queue # <<>>
                    /\ Head(executors[tasks[i].executor].work_queue) = i
           /\ ResizeFails =>
                 /\ refusal' = "ResizeClosed" => shutdown
                 /\ UNCHANGED <<clock, tasks, task_queue, max_workers, executors,
                                dispatchers, stats, gate, shutdown, resizer, closer>>]_vars

\* resize has returned and a task handed to the replaced executor is running
C15_Witness ==
    /\ Len(executors) = 2
    /\ resizer.pc = "idle"
    /\ \E i \in TaskIds : tasks[i].executor = 1 /\ tasks[i].stage = "running"

\* the step is a purge_queue call on an open scheduler
Purges ==
    /\ ~shutdown
    /\ \E i \in TaskIds : tasks[i].stage # "purged" /\ tasks'[i].stage = "purged"

\* C16: purge_queue on an open scheduler empties the priority queue and removes
\* exactly the tasks that were in it; the tasks held by a dispatcher thread, by
\* an executor or by a worker, the executors, the dispatcher threads and the
\* counters are unchanged by it, and a task with a worker goes on to
\* completion afterwards; purge_queue on a closed scheduler changes nothing.
C16_PurgeFrame ==
    /\ [][Purges =>
            /\ task_queue' = <<>>
            /\ \A i \in TaskIds :
                  IF i \in Queued
                  THEN tasks'[i] = [tasks[i] EXCEPT !.stage = "purged"]
                  ELSE tasks'[i] = tasks[i]
            /\ UNCHANGED <<stats, executors, dispatchers, max_workers, shutdown>>]_vars
    /\ [][(refusal' # refusal /\ refusal' = "PurgeClosed") =>
            /\ shutdown
            /\ UNCHANGED <<clock, tasks, task_queue, max_workers, executors, dispatchers,
                           stats, gate, shutdown, resizer, closer>>]_vars
    /\ [](\A i \in TaskIds :
            (tasks[i].stage = "purged" => tasks[i].future = "pending")
            /\ (tasks[i].stage = "done" => tasks[i].future # "pending"))

\* a task has been purged from the queue while the task submitted before it
\* is with a worker
C16_Witness ==
    /\ ~shutdown
    /\ task_queue = <<>>
    /\ \E i, j \in TaskIds :
          /\ i < j
          /\ tasks[i].stage = "running"
          /\ tasks[j].stage = "purged"
    /\ stats.total_tasks = 2
    /\ stats.active_tasks = 1

\* the step counts a failed task
CountsFailure == stats'.failed_tasks # stats.failed_tasks

\* C17: a step counts a failure exactly when the payload of a running task
\* raises: the error is stored in the pending result handle of that task,
\* failed_tasks goes up by one, completed_tasks, the priority queue and the
\* dispatcher threads are as before, so that the dispatcher goes on with the
\* tasks that follow; and no other step stores an error in a handle.
C17_PayloadErrorCaptured ==
    [][/\ CountsFailure =>
            /\ stats'.failed_tasks = stats.failed_tasks + 1
            /\ stats'.completed_tasks = stats.completed_tasks
            /\ stats'.total_tasks = stats.total_tasks
            /\ \E i \in TaskIds :
                  /\ tasks[i].stage = "running"
                  /\ tasks[i].future = "pending"
                  /\ tasks' = [tasks EXCEPT ![i].stage = "ran", ![i].future = "error"]
            /\ UNCHANGED <<task_queue, dispatchers, executors, shutdown>>
       /\ \A i \in TaskIds :
            (tasks'[i].future = "error" /\ tasks[i].future # "error") => CountsFailure
       /\ \A d \in DOMAIN dispatchers : dispatchers'[d].pc # "exited"]_vars

\* the payload of a task has raised and the dispatcher is handing the next
\* task to the executor
C17_Witness ==
    /\ stats.failed_tasks = 1
    /\ \E i, j \in TaskIds :
          /\ tasks[i].future = "error"
          /\ tasks[j].stage = "taken"
          /\ \E d \in DOMAIN dispatchers : dispatchers[d] = [pc |-> "hand", task |-> j]

\* the tasks counted for a worker: the dispatcher has counted them and is
\* handing them over, or they are with an executor and _execute_task has not
\* reached its finally clause
InHand ==
    {i \in TaskIds : tasks[i].stage \in {"handed", "running", "ran"}}
    \cup {dispatchers[d].task : d \in {x \in DOMAIN dispatchers : dispatchers[x].pc = "hand"}}

\* C29: in every reachable state, for any interleaving of submit, dispatch,
\* execution and resize, active_tasks is the number of tasks that are being
\* handed or have been handed to a worker pool and are not finished; it is
\* never negative and never stays counted up for a task no worker will run.
C29_ActiveMatchesHandOff ==
    /\ stats.active_tasks >= 0
    /\ stats.active_tasks = Cardinality(InHand)

\* the dispatcher threads that have not left _dispatch_tasks
LiveDispatchers == {d \in DOMAIN dispatchers : dispatchers[d].pc # "exited"}

\* C32: at every reachable state of a scheduler that is open, exactly one
\* dispatcher loop is dequeuing from its priority queue, for any sequence of
\* submit and resize calls; a resize does not leave two dispatcher loops running.
C32_OneDispatcher ==
    ~shutdown => Cardinality(LiveDispatchers) = 1

\* C33: in every state observable through get_stats, for any interleaving of
\* concurrent submits with dispatch and execution, completed_tasks +
\* failed_tasks + active_tasks <= total_tasks: a task is never counted as
\* active, completed or failed before it is counted as submitted.
C33_CountedAfterSubmitted ==
    stats.completed_tasks + stats.failed_tasks + stats.active_tasks <= stats.total_tasks

\* the tasks whose payload is being executed by a worker thread
Executing == {i \in TaskIds : tasks[i].stage = "running"}

\* C40: at every reachable state the number of task payloads executing
\* concurrently in a scheduler is at most its current max_workers, for any
\* sequence of submit and resize calls, a resize to a smaller worker count
\* while tasks of the old pool are still running included.
C40_AtMostMaxWorkers ==
    Cardinality(Executing) <= max_workers

\* C37: while the scheduler's monitor runs with a custom callback set, every
\* reporting tick reads get_stats() and calls the custom callback exactly once
\* with those statistics, and a failing tick does not end the monitor loop
C37_TickCallsBack ==
    [][(log_ticks' = log_ticks + 1 /\ custom_log_callback) =>
          /\ callback_calls' = callback_calls + 1
          /\ reported'.outcome = "logged" => reported'.stats = GetStats
          /\ reporter_thread' # "dead"]_vars

(***************************************************************************)
(* Properties of MemoryMonitor                                             *)
(***************************************************************************)
\* the step is a call of _check_alert_level
Classifies == classified' # classified

\* C18: with warning threshold w < critical threshold c, a sample percent p is
\* classified CRITICAL iff p >= c, WARNING iff w <= p < c and NORMAL iff p < w;
\* with (w, c) = (70, 85) the percents 69.9, 70, 84.9 and 85 are classified
\* NORMAL, WARNING, WARNING, CRITICAL.
C18_Classification ==
    [][(Classifies /\ warning_threshold < critical_threshold) =>
         LET p == classified'.percent
             level == classified'.level
             w == warning_threshold
             c == critical_threshold
         IN  /\ level \in {MemoryAlertLevel_NORMAL, MemoryAlertLevel_WARNING,
                            MemoryAlertLevel_CRITICAL}
             /\ level = MemoryAlertLevel_CRITICAL <=> p >= c
             /\ level = MemoryAlertLevel_WARNING <=> (w <= p /\ p < c)
             /\ level = MemoryAlertLevel_NORMAL <=> p < w
             /\ (w = 70 * Scale /\ c = 85 * Scale) =>
                   /\ p = 70 * Scale - 1 => level = MemoryAlertLevel_NORMAL
                   /\ p = 70 * Scale => level = MemoryAlertLevel_WARNING
                   /\ p = 85 * Scale - 1 => level = MemoryAlertLevel_WARNING
                   /\ p = 85 * Scale => level = MemoryAlertLevel_CRITICAL]_vars

\* with the thresholds (70, 85) the sample 84.9 has been classified WARNING
C18_Witness ==
    /\ warning_threshold = 70 * Scale
    /\ critical_threshold = 85 * Scale
    /\ classified = [percent |-> 85 * Scale - 1, level |-> MemoryAlertLevel_WARNING]

\* the step is a set_thresholds call that fails with an error
SetThresholdsFails ==
    /\ threshold_call' # threshold_call
    /\ threshold_call'.outcome = "ValueError"

\* C19: a set_thresholds call that is rejected, for a value outside [0, 100]
\* or for a resulting critical <= warning, leaves the warning threshold and the
\* critical threshold as they were before the call.
C19_RejectedKeepsThresholds ==
    [][SetThresholdsFails =>
         /\ warning_threshold' = warning_threshold
         /\ critical_threshold' = critical_threshold]_vars

\* C20: in every reachable state of the monitor, after construction and after
\* any sequence of set_thresholds calls that succeed or fail,
\* critical_threshold is greater than warning_threshold.
C20_CriticalAboveWarning ==
    warning_threshold < critical_threshold

\* the sampler is RUNNING: its loop thread is alive and has not been told to stop
SamplerRunning == IsAlive /\ ~stop_monitoring

\* the step is the return of a start call
StartReturns == sampler_call' # sampler_call /\ sampler_call'.op = "start"

\* the step belongs to a stop call: its first statements or its return
StopSteps ==
    \/ stopper' # stopper
    \/ sampler_call' # sampler_call /\ sampler_call'.op = "stop"

\* the fields of the monitor
MonitorFields == <<stop_monitoring, monitor_thread, loops, alert_callbacks, alert_count,
                   monitorVars>>

\* C21: for any sequence of start and stop calls, a start call made while the
\* loop thread is alive and a stop call made while the sampler is not RUNNING
\* change no field of the monitor, and at no time is more than one loop thread
\* alive.
C21_StartStopIdempotent ==
    /\ [][(StartReturns /\ IsAlive) => UNCHANGED MonitorFields]_vars
    /\ [][(StopSteps /\ ~SamplerRunning) => UNCHANGED MonitorFields]_vars
    /\ [](Cardinality(AliveLoops) <= 1)

\* a second loop thread was started after the first had ended, and a further
\* start call has found it alive
C21_Witness ==
    /\ Len(loops) >= 2
    /\ Cardinality(AliveLoops) = 1
    /\ sampler_call = [op |-> "start", outcome |-> "already_running", seq |-> sampler_call.seq]

\* the calls of a callback among the calls a tick has made
CallsOf(invoked, callback) == {k \in DOMAIN invoked : invoked[k].callback = callback}

\* C22: on every sampler tick whose level is not NORMAL, alert_count
\* increases by exactly one and every alert callback that was registered when
\* the alert was raised, and still is when the tick ends, has been invoked
\* exactly once with the tick's sample and level, also when an earlier
\* callback raised; the loop thread lives on.  A NORMAL tick invokes no
\* callback and leaves alert_count unchanged.
C22_AlertsReachCallbacks ==
    [][\A l \in DOMAIN loops :
          /\ (loops[l].pc = "sample" /\ loops'[l].level # MemoryAlertLevel_NORMAL) =>
                loops'[l].pc = "alert"
          /\ (loops[l].pc = "sample" /\ loops'[l].pc = "test") =>
                /\ alert_count' = alert_count
                /\ loops'[l].invoked = <<>>
          /\ (loops[l].pc = "alert" /\ loops'[l] # loops[l]) =>
                alert_count' = alert_count + 1
          /\ (loops[l].pc # "alert" /\ Cardinality(AliveLoops) = 1 /\ l \in AliveLoops) =>
                alert_count' = alert_count
          /\ (loops[l].pc = "callbacks" /\ loops'[l].pc # "callbacks") =>
                /\ loops'[l].pc # "dead"
                /\ \A callback \in Range(loops[l].registered) \cap Range(alert_callbacks) :
                      /\ Cardinality(CallsOf(loops[l].invoked, callback)) = 1
                      /\ \A k \in CallsOf(loops[l].invoked, callback) :
                            /\ loops[l].invoked[k].percent = loops[l].percent
                            /\ loops[l].invoked[k].level = loops[l].level]_vars

\* C39: when the call that returned last is start(), the sampling loop is
\* running afterwards: its thread is alive and has not been told to stop, so it
\* keeps taking samples; also when start() was called while the previous
\* thread had been told to stop and had not yet exited
C39_LastStartRuns ==
    (sampler_call.op = "start" /\ stopper.pc = "idle") => IsAlive /\ ~stop_monitoring

(***************************************************************************)
(* Properties of GarbageCollectionMonitor                                  *)
(***************************************************************************)
\* the last detect_memory_leaks call has returned and no snapshot was taken since
LeaksReturned == leak_call.outcome = "returned"

\* the call was detect_memory_leaks(min_snapshots=3, growth_threshold=1.1)
DefaultLeakCall ==
    /\ LeaksReturned
    /\ leak_call.min_snapshots = 3
    /\ leak_call.growth_threshold = 11

\* the sizes of the last n snapshots, oldest first
LastSizes(n) == [k \in 1 .. n |-> snapshots[Len(snapshots) - n + k]]

\* C23 as stated: detect_memory_leaks(min_snapshots=3, growth_threshold=1.1)
\* returns no candidate when the last three snapshot sizes are [100,100,100],
\* and exactly one candidate, spanning all three snapshots, when they are
\* [100,115,135].
C23_OneCandidateOverThree ==
    (DefaultLeakCall /\ Len(snapshots) >= 3) =>
        /\ LastSizes(3) = <<100, 100, 100>> => leak_call.potential_leaks = <<>>
        /\ LastSizes(3) = <<100, 115, 135>> =>
              /\ Len(leak_call.potential_leaks) = 1
              /\ leak_call.potential_leaks[1].start = 1
              /\ leak_call.potential_leaks[1].end = 3

\* C23 amended: detect_memory_leaks(min_snapshots=3, growth_threshold=1.1)
\* returns no candidate when the last three snapshot sizes are [100,100,100],
\* and exactly two candidates when they are [100,115,135]: one for the first
\* and the second snapshot (100 to 115) and one for the second and the third
\* (115 to 135), in this order.
C23_OneCandidatePerPair ==
    (DefaultLeakCall /\ Len(snapshots) >= 3) =>
        /\ LastSizes(3) = <<100, 100, 100>> => leak_call.potential_leaks = <<>>
        /\ LastSizes(3) = <<100, 115, 135>> =>
              leak_call.potential_leaks =
                 <<[start |-> 1, end |-> 2, start_size |-> 100, end_size |-> 115,
                    size_diff |-> 15],
                   [start |-> 2, end |-> 3, start_size |-> 115, end_size |-> 135,
                    size_diff |-> 20]>>

\* the default call has returned for a full history that ends with 100, 115, 135
C23_Witness ==
    /\ DefaultLeakCall
    /\ Len(snapshots) = MaxSnapshots
    /\ LastSizes(3) = <<100, 115, 135>>

\* size[i] / size[j] > growth_threshold, for the snapshots at the places i and j
\* of the window
Grows(window, j, i) ==
    window[i] * Tenths > leak_call.growth_threshold * window[j]

\* the claimed condition for the adjacent pair (i - 1, i) of the window
GrowsOverAll(window, i) ==
    /\ Grows(window, i - 1, i)
    /\ \A j \in 1 .. i - 2 : Grows(window, j, i)

\* the places i of the window whose pair (i - 1, i) is among the candidates
Reported == {leak_call.potential_leaks[k].end : k \in DOMAIN leak_call.potential_leaks}

\* C24: over the most recent min_snapshots snapshots, all of a positive size,
\* detect_memory_leaks reports a candidate for the adjacent pair (i-1, i) if
\* and only if size[i]/size[i-1] > growth_threshold and size[i]/size[j] >
\* growth_threshold for every earlier snapshot j < i-1 in the window, each pair
\* once; with fewer than min_snapshots snapshots it returns an empty list.
C24_ConsistentGrowthOnly ==
    LeaksReturned =>
        LET n == leak_call.min_snapshots
            leaks == leak_call.potential_leaks
        IN  IF Len(snapshots) < n THEN leaks = <<>>
            ELSE (\A k \in 1 .. n : LastSizes(n)[k] > 0) =>
                    /\ \A i \in 2 .. n : i \in Reported <=> GrowsOverAll(LastSizes(n), i)
                    /\ \A k \in DOMAIN leaks :
                          /\ leaks[k].start = leaks[k].end - 1
                          /\ leaks[k].end \in 2 .. n
                    /\ Cardinality(Reported) = Len(leaks)

\* a call has returned that reported one pair and rejected another, which
\* grew over its predecessor but not over an earlier snapshot
C24_Witness ==
    /\ LeaksReturned
    /\ Len(snapshots) >= leak_call.min_snapshots
    /\ \A k \in 1 .. leak_call.min_snapshots : LastSizes(leak_call.min_snapshots)[k] > 0
    /\ leak_call.potential_leaks # <<>>
    /\ \E i \in 2 .. leak_call.min_snapshots :
          /\ Grows(LastSizes(leak_call.min_snapshots), i - 1, i)
          /\ ~GrowsOverAll(LastSizes(leak_call.min_snapshots), i)

\* the store holds the most recent of the count arrivals so far, at most cap
\* of them, in arrival order
MostRecent(store, count, cap) ==
    /\ Len(store) = IF count < cap THEN count ELSE cap
    /\ \A i \in 1..Len(store) : store[i] = count - Len(store) + i

\* the last n entries of a sequence, all of them when it has fewer
LastOf(seq, n) == SubSeq(seq, IF Len(seq) > n THEN Len(seq) - n + 1 ELSE 1, Len(seq))

\* C35: after any number of sampler ticks, collector events and snapshot
\* ticks the sampler history holds at most max_history_size samples, the
\* collector history at most 100 events and the snapshot ring at most
\* max_snapshots snapshots, each the most recent entries in arrival order: a
\* snapshot tick leaves the ring with the last max_snapshots of the old ring
\* followed by the new snapshot
C35_BoundedHistories ==
    /\ [](MostRecent(history, samples_taken, max_history_size))
    /\ [](MostRecent(gc_stats, total_gc_calls, GcStatsLimit))
    /\ [](Len(snapshots) <= MaxSnapshots)
    /\ [][snapshots' # snapshots =>
             \E total_size \in HistorySizes :
                snapshots' = LastOf(Append(snapshots, total_size), MaxSnapshots)]_vars

\* every one of the three stores is full and has evicted entries
C35_Witness ==
    /\ samples_taken > max_history_size
    /\ Len(history) = max_history_size
    /\ total_gc_calls > GcStatsLimit
    /\ Len(gc_stats) = GcStatsLimit
    /\ Len(snapshots) = MaxSnapshots
    /\ snapshots[1] # snapshots[MaxSnapshots]

(***************************************************************************)
(* Properties of MemoryAlertManager                                        *)
(***************************************************************************)
\* the step is a _handle_alert call
Alerted == routed' # routed

\* the enabled rules of a level
EnabledRules(level) ==
    {k \in DOMAIN alert_configs[level] : alert_configs[level][k].enabled}

\* the enabled rules of the level whose cooldown period has passed at the
\* time at since the time since
EnabledAndDue(level, at, since) ==
    {k \in EnabledRules(level) : at - since >= alert_configs[level][k].cooldown_period}

\* C25: for an alert level with one enabled rule of cooldown c, an alert that
\* arrives less than c after the alert in which the level's channel action was
\* executed last causes no channel dispatch, and an alert that arrives at least
\* c after it, or before any dispatch, dispatches; so alerts at t, t+1s and
\* t+301s with c = 300s produce exactly two dispatches, the first and the third.
C25_CooldownPerLevel ==
    [][Alerted =>
         LET level == handled'.level
         IN  Cardinality(EnabledRules(level)) = 1 =>
                LET rule == CHOOSE k \in EnabledRules(level) : TRUE
                    c == alert_configs[level][rule].cooldown_period
                IN  IF dispatched_at[level] # 0 /\ now' - dispatched_at[level] < c
                    THEN handled'.executed = {}
                    ELSE handled'.executed = {rule}]_vars

C27_TimestampPerLevel ==
    [][Alerted =>
         LET level == handled'.level
         IN  /\ handled'.executed = EnabledAndDue(level, now', last_alert_times[level])
             /\ \A other \in AlertLevels \ {level} :
                   last_alert_times'[other] = last_alert_times[other]
             /\ IF handled'.executed # {}
                 THEN last_alert_times'[level] = now'
                 ELSE last_alert_times'[level] = last_alert_times[level]]_vars

C28_ShutdownStopsLoops ==
    /\ governor_call.outcome \in {"none", "returned"}
    /\ governor_call.outcome = "returned" =>
          /\ ~IsAlive \/ stop_monitoring
          /\ snapshot_thread = "dead" \/ stop_snapshot_thread
          /\ ~gc_hook

\* C36: the thresholds stored in the configuration are the thresholds the
\* sampler classifies with, after any sequence of set_memory_thresholds calls,
\* rejected calls included (a rejected call changes neither)
C36_ConfigMatchesSampler ==
    /\ config_manager.warning = warning_threshold
    /\ config_manager.critical = critical_threshold

\* C31: no thread holds a lock of the sampler, the alert manager or the
\* governor while it is inside an alert callback, inside a channel action or
\* inside a registered pool's or scheduler's size(), in_use_count() or
\* get_stats()
C31_NoLockAcrossCalls ==
    \A t \in Callers :
       /\ inside[t].pc \in {"rules", "action"} => locks.stats_lock # t
       /\ inside[t].pc \in {"action", "reading"} => HeldBy(t) = {}

====
